---- MODULE Spec2Model ----
(***************************************************************************)
(* Bank statement parser: the batch run of app.py (RUN ANALYSIS block and  *)
(* get_monthly_summary), the table extractors, the text parsers and the    *)
(* fallback chains.  Money is counted in whole currency units scaled so    *)
(* that every amount of the model is an integer; a canonical record is     *)
(* [date, description, debit, credit, balance].                            *)
(***************************************************************************)
EXTENDS Integers, Sequences, FiniteSets, TLC

\* ------------------------------------------------------------------ bounds
MaxDocs == 2
MaxRows == 3
MaxTableRows == 2
MaxLines == 3

\* ------------------------------------------------------------- variables
VARIABLES
    pc,              \* app.py: position of the script run
    od_limit,        \* app.py: sidebar number_input "OD Limit (RM)"
    n_done,          \* app.py: uploaded files the loop has gone through
    all_tx,          \* app.py: the rows of the frames appended so far, in order
    n_errors,        \* app.py: st.error calls of the run
    data_extracted,  \* app.py: st.session_state.data_extracted
    summary_df,      \* app.py: result of get_monthly_summary
    chain,           \* which fallback chain is called
    marker_only,     \* the document holds a balance-only marker line and nothing else
    outcome,         \* what each strategy of the chain does on the document
    consulted,       \* the strategies invoked so far, in order
    chain_pc,        \* position of the chain call
    result,          \* the value the chain returned
    bank,            \* which table extractor is called
    is_casa,         \* bank_islam.py: the page's table has the CASA layout
    txns,            \* the rows the table extractor has emitted
    seen,            \* cimb.py: the signatures already emitted
    cimb_summary,    \* cimb.py: the od_limit and result of compute_cimb_summary, if called
    parser,          \* which text parser is called
    text_pc,         \* position of the text parser: "scan" or "done"
    n_lines,         \* lines of the document the parser has read
    rows,            \* the rows (rows / txns / all_transactions) the parser holds
    prev_balance,    \* the balance carried from the row before
    current_tx,      \* the open transaction and where `rows` holds that object
    desc_buffer,     \* maybank.py: the description lines of the open transaction
    current_date,    \* public_bank.py: the short date of the last dated line
    desc_accum,      \* public_bank.py: the description gathered for the next amount
    waiting_for_amount, \* public_bank.py: a transaction start awaits its amount
    statement_year,  \* public_bank.py: the year the statement prints, if any
    detected_year,   \* public_bank.py: the year the rows are dated with
    doc,             \* the lines of the statement's text read so far
    balance_bf,      \* ocbc.py: the Balance B/F amount found, if any
    n_calls,         \* the calls of the extractor that came before this one
    words,           \* the positioned words of the page, as the parser sorted them
    processed_y,     \* maybank.py processed_y, rhb.py used_y: the lines already emitted
    gathered,        \* history: for each emitted row, its anchor and the words of its line
    txns_000         \* unnamed/part_000: the rows its extract_bank_rakyat has emitted

appVars == <<pc, od_limit, n_done, all_tx, n_errors, data_extracted, summary_df>>
chainVars == <<chain, marker_only, outcome, consulted, chain_pc, result>>
tableVars == <<bank, is_casa, txns, seen, cimb_summary>>

pbbVars == <<current_date, desc_accum, waiting_for_amount, statement_year, detected_year>>
ocbcVars == <<balance_bf>>
textVars ==
    <<parser, text_pc, n_lines, doc, rows, prev_balance, current_tx, desc_buffer,
      pbbVars, ocbcVars>>
layoutVars == <<words, processed_y, gathered>>

vars == <<appVars, chainVars, tableVars, textVars, layoutVars, n_calls, txns_000>>

notApp == <<chainVars, tableVars, textVars, layoutVars, n_calls, txns_000>>
notChain == <<appVars, tableVars, textVars, layoutVars, n_calls, txns_000>>
notTable == <<appVars, chainVars, textVars, layoutVars, n_calls, txns_000>>
notPair == <<appVars, chainVars, textVars, layoutVars, n_calls>>
notText == <<appVars, chainVars, tableVars, layoutVars, n_calls, txns_000>>
notLayout == <<appVars, chainVars, tableVars, n_calls, txns_000>>

\* --------------------------------------------------------------- helpers
None == <<>>
Some(x) == <<x>>

\* the values a component keeps while another one runs
AppOff ==
    /\ pc = "off"
    /\ od_limit = 0
    /\ n_done = 0
    /\ all_tx = <<>>
    /\ n_errors = 0
    /\ data_extracted = None
    /\ summary_df = <<>>

ChainOff ==
    /\ chain = "off"
    /\ marker_only = FALSE
    /\ outcome = <<>>
    /\ consulted = <<>>
    /\ chain_pc = "off"
    /\ result = None

TableOff ==
    /\ bank = "off"
    /\ is_casa = FALSE
    /\ txns = <<>>
    /\ seen = {}
    /\ cimb_summary = None
    /\ txns_000 = <<>>

TextOff ==
    /\ parser = "off"
    /\ text_pc = "off"
    /\ n_lines = 0
    /\ rows = <<>>
    /\ prev_balance = None
    /\ current_tx = None
    /\ desc_buffer = <<>>
    /\ current_date = None
    /\ desc_accum = <<>>
    /\ waiting_for_amount = FALSE
    /\ statement_year = None
    /\ detected_year = 0
    /\ doc = <<>>
    /\ balance_bf = None
    /\ words = <<>>
    /\ processed_y = {}
    /\ gathered = <<>>

Abs(x) == IF x < 0 THEN -x ELSE x

RECURSIVE SumOf(_, _)
SumOf(group, col) ==
    IF group = <<>> THEN 0
    ELSE (IF col = "debit" THEN Head(group).debit ELSE Head(group).credit)
         + SumOf(Tail(group), col)

\* the balance of the first row in place of the largest
FirstBalance(group) == group[1].balance

MaxBalance(group) ==
    CHOOSE b \in {group[i].balance : i \in DOMAIN group} :
        \A j \in DOMAIN group : group[j].balance <= b

MinBalance(group) ==
    CHOOSE b \in {group[i].balance : i \in DOMAIN group} :
        \A j \in DOMAIN group : group[j].balance >= b

\* --------------------------------------------------------------- dates
\* A date cell is the text of a date, kept as its day, month and year
\* fields; text that is no date has no fields that form one.
DateText(d, m, y) == [d |-> d, m |-> m, y |-> y]
BadDate == DateText(0, 0, 0)

NaT == -1

\* pd.to_datetime(..., dayfirst=True, errors='coerce'): a timestamp (days on
\* a 31-day grid, which keeps the calendar order) or NaT.
ToDatetime(date) ==
    IF date.m \in 1..12 /\ date.d \in 1..31
    THEN (date.y * 12 + (date.m - 1)) * 31 + (date.d - 1)
    ELSE NaT

\* Series.dt.to_period("M")
ToPeriod(ts) == ts \div 31

\* period.strftime("%b %Y")
MonthLabel(p) == [m |-> (p % 12) + 1, y |-> p \div 12]

\* --------------------------------------------------------------- tokens
\* A piece of text is a word or a money token: digits with two decimals
\* (val, negative when a minus leads) and the marker that trails them
\* ("", "+", "-", "DR", "CR").  A description is a sequence of tokens.
Word(w) == [kind |-> "word", text |-> w, val |-> 0, mark |-> ""]
Num(v, mk) == [kind |-> "num", text |-> "", val |-> v, mark |-> mk]
Blank == [kind |-> "blank", text |-> "", val |-> 0, mark |-> ""]
\* the text of a date inside a description
DateWord(dt) == [kind |-> "date", text |-> "", val |-> (dt.y * 100 + dt.m) * 100 + dt.d, mark |-> ""]

\* ---------------------------------------------------------- input frames
Dates == {DateText(10, 12, 2023), DateText(5, 1, 2024), DateText(20, 1, 2024), BadDate}
Movements == {<<30, 0>>, <<0, 30>>}
Balances == {-20, 70}

Row(dt, desc, dr, cr, bal) ==
    [date |-> dt, description |-> desc, debit |-> dr, credit |-> cr, balance |-> bal]

Rows ==
    {Row(dt, <<Word("TRF")>>, mv[1], mv[2], b) :
        dt \in Dates \ {BadDate}, mv \in Movements, b \in Balances}
    \cup {Row(BadDate, <<Word("TRF")>>, 30, 0, 70)}

FramesOfLen(n) == [1..n -> Rows]

\* the frames an extractor may return when k more rows fit the batch
Frames(k) == UNION {FramesOfLen(n) : n \in 1..k}

\* ------------------------------------------------------------ RUN ANALYSIS
\* sort key of sort_values("_sort"): NaT sorts last (na_position='last')
Before(a, b) ==
    LET ta == ToDatetime(a.date)
        tb == ToDatetime(b.date)
    IN  \/ tb = NaT
        \/ (ta # NaT /\ ta <= tb)

RemoveAt(df, i) == SubSeq(df, 1, i - 1) \o SubSeq(df, i + 1, Len(df))

\* the positions of the rows no other row sorts before; the rows without a
\* timestamp are put after the sorted ones in the order they had
Firsts(df) ==
    {i \in DOMAIN df :
        /\ \A j \in DOMAIN df : Before(df[i], df[j])
        /\ ToDatetime(df[i].date) = NaT => i = 1}

\* df.sort_values("_sort").reset_index(drop=True): the default sort kind is
\* not stable, so rows with equal keys may come out in any order.
RECURSIVE SortValues(_)
SortValues(df) ==
    IF Len(df) <= 1 THEN {df}
    ELSE UNION {{<<df[i]>> \o rest : rest \in SortValues(RemoveAt(df, i))} :
                   i \in Firsts(df)}

StartRun ==
    /\ pc = "idle"
    /\ pc' = "loop"
    /\ all_tx' = <<>>
    /\ n_done' = 0
    /\ n_errors' = 0
    /\ UNCHANGED <<od_limit, data_extracted, summary_df, notApp>>

\* if not uploaded_files: st.error(...)
RunNoFiles ==
    /\ pc = "idle"
    /\ pc' = "nofiles"
    /\ UNCHANGED <<od_limit, n_done, all_tx, n_errors, data_extracted, summary_df, notApp>>

\* one pass of the loop: the extractor returns a non-empty frame
ProcessFile ==
    /\ pc = "loop"
    /\ n_done < MaxDocs
    /\ Len(all_tx) < MaxRows
    /\ \E df \in Frames(MaxRows - Len(all_tx)) :
         \E sorted \in SortValues(df) :
            all_tx' = all_tx \o sorted
    /\ n_done' = n_done + 1
    /\ UNCHANGED <<pc, od_limit, n_errors, data_extracted, summary_df, notApp>>

\* one pass of the loop: the extractor returns None or an empty frame
ProcessEmpty ==
    /\ pc = "loop"
    /\ n_done < MaxDocs
    /\ n_done' = n_done + 1
    /\ UNCHANGED <<pc, od_limit, all_tx, n_errors, data_extracted, summary_df, notApp>>

\* one pass of the loop: the extractor raises, st.error names the file
ProcessError ==
    /\ pc = "loop"
    /\ n_done < MaxDocs
    /\ n_done' = n_done + 1
    /\ n_errors' = n_errors + 1
    /\ UNCHANGED <<pc, od_limit, all_tx, data_extracted, summary_df, notApp>>

\* after the loop: if all_tx: data_extracted = pd.concat(all_tx, ignore_index=True)
FinishRun ==
    /\ pc = "loop"
    /\ n_done >= 1
    /\ data_extracted' = IF all_tx # <<>> THEN Some(all_tx) ELSE data_extracted
    /\ pc' = "ran"
    /\ UNCHANGED <<od_limit, n_done, all_tx, n_errors, summary_df, notApp>>

\* ------------------------------------------------------ get_monthly_summary
\* dropna left out: every row goes on to the grouping
DatedAll(df) == df

\* df.dropna(subset=["_dt"])
Dated(df) == SelectSeq(df, LAMBDA r : ToDatetime(r.date) # NaT)

PeriodOf(r) == ToPeriod(ToDatetime(r.date))

PeriodsOf(df) == {PeriodOf(df[i]) : i \in DOMAIN df}

\* groupby(...): the group keys in ascending order
RECURSIVE SortedKeys(_)
SortedKeys(S) ==
    IF S = {} THEN <<>>
    ELSE LET lo == CHOOSE x \in S : \A y \in S : x <= y
         IN  <<lo>> \o SortedKeys(S \ {lo})

\* ------------------------------------------------------------- Key Metrics
\* the cumulative rows up to a month in place of the rows of the month
GroupUpTo(df, p) == SelectSeq(df, LAMBDA r : PeriodOf(r) <= p)

RECURSIVE ColumnSum(_, _)
\* summary_df['Credit'].sum(), summary_df['Debit'].sum()
ColumnSum(summary, col) ==
    IF summary = <<>> THEN 0
    ELSE (IF col = "Credit" THEN Head(summary).Credit ELSE Head(summary).Debit)
         + ColumnSum(Tail(summary), col)

\* col1.metric("Total Credits", ...), col2.metric("Total Debits", ...)
TotalCredits(summary) == ColumnSum(summary, "Credit")
TotalDebits(summary) == ColumnSum(summary, "Debit")

\* groupby(...): the rows of one key, in the order they have in the frame
Group(df, p) == SelectSeq(df, LAMBDA r : PeriodOf(r) = p)

\* the opening taken from the group's own first row in every month
OpeningRecomputed(group, prev_end) ==
    group[1].balance - group[1].credit + group[1].debit

Opening(group, prev_end) ==
    IF prev_end = None
    THEN group[1].balance - group[1].credit + group[1].debit
    ELSE prev_end[1]

Ending(group) == group[Len(group)].balance

OdUtil(ending, limit) == IF limit > 0 /\ ending < 0 THEN Abs(ending) ELSE 0

SummaryRow(p, group, prev_end, limit) ==
    [Month   |-> MonthLabel(p),
     Opening |-> Opening(group, prev_end),
     Debit   |-> SumOf(group, "debit"),
     Credit  |-> SumOf(group, "credit"),
     Ending  |-> Ending(group),
     Highest |-> MaxBalance(group),
     Lowest  |-> MinBalance(group),
     Swing   |-> MaxBalance(group) - MinBalance(group),
     OdUtil  |-> OdUtil(Ending(group), limit)]

RECURSIVE SummaryLoop(_, _, _, _)
SummaryLoop(df, keys, prev_end, limit) ==
    IF keys = <<>> THEN <<>>
    ELSE LET group == Group(df, Head(keys))
         IN  <<SummaryRow(Head(keys), group, prev_end, limit)>>
             \o SummaryLoop(df, Tail(keys), Some(Ending(group)), limit)

\* the group keys in the order of their first appearance (groupby sort=False)
RECURSIVE AppearanceKeys(_)
AppearanceKeys(df) ==
    IF df = <<>> THEN <<>>
    ELSE <<PeriodOf(Head(df))>>
         \o AppearanceKeys(SelectSeq(Tail(df), LAMBDA r : PeriodOf(r) # PeriodOf(Head(df))))

GroupKeys(df) == SortedKeys(PeriodsOf(df))

get_monthly_summary(df, limit) ==
    SummaryLoop(Dated(df), GroupKeys(Dated(df)), None, limit)

\* section 3 of the script: shown whenever data_extracted is set
Display ==
    /\ pc = "ran"
    /\ data_extracted # None
    /\ summary_df' = get_monthly_summary(data_extracted[1], od_limit)
    /\ pc' = "shown"
    /\ UNCHANGED <<od_limit, n_done, all_tx, n_errors, data_extracted, notApp>>

\* ------------------------------------------------------------------ RHB2.py
\* The upload loop of RHB2.py, a script of its own: all_tx stands for its
\* all_transactions list.
InitRhb2 ==
    /\ n_calls = 0
    /\ ChainOff
    /\ TableOff
    /\ TextOff
    /\ pc = "rhb2_loop"
    /\ od_limit = 0
    /\ n_done = 0
    /\ all_tx = <<>>
    /\ n_errors = 0
    /\ data_extracted = None
    /\ summary_df = <<>>

\* one pass of the loop: process_rhb_pdf returns its list, empty or not
Rhb2File ==
    /\ pc = "rhb2_loop"
    /\ n_done < MaxDocs
    /\ Len(all_tx) < MaxRows
    /\ \E txns_of_file \in Frames(MaxRows - Len(all_tx)) \cup {<<>>} :
         all_tx' = all_tx \o txns_of_file
    /\ n_done' = n_done + 1
    /\ UNCHANGED <<pc, od_limit, n_errors, data_extracted, summary_df, notApp>>

\* one pass of the loop: process_rhb_pdf raises, and nothing in the script
\* catches it
Rhb2Error ==
    /\ pc = "rhb2_loop"
    /\ n_done < MaxDocs
    /\ pc' = "aborted"
    /\ UNCHANGED <<od_limit, n_done, all_tx, n_errors, data_extracted, summary_df, notApp>>

\* after the loop: st.dataframe(all_transactions)
Rhb2Finish ==
    /\ pc = "rhb2_loop"
    /\ n_done >= 1
    /\ pc' = "rhb2_shown"
    /\ UNCHANGED <<od_limit, n_done, all_tx, n_errors, data_extracted, summary_df, notApp>>

NextRhb2 ==
    \/ Rhb2File
    \/ Rhb2Error
    \/ Rhb2Finish

SpecRhb2 == InitRhb2 /\ [][NextRhb2]_vars

\* =========================================================== fallback chains
\* The registries: parse_transactions_rhb's tuple of parsers, the two
\* strategies of extract_maybank, the three format blocks of extract_ambank.
Registry(c) ==
    CASE c = "rhb"     -> <<"account_statement", "islamic", "conventional", "reflex">>
      [] c = "maybank" -> <<"cws", "mytutor">>
      [] c = "ambank"  -> <<"format1", "format2", "format3">>

\* what a strategy call does: it raises, returns None, or returns rows
Raises == [kind |-> "raise", rows |-> <<>>]
ReturnsNone == [kind |-> "none", rows |-> <<>>]
Returns(tx) == [kind |-> "rows", rows |-> tx]

ChainLedgers ==
    {<<Row(DateText(5, 1, 2024), <<Word("TRF")>>, 30, 0, 70)>>,
     <<Row(DateText(5, 1, 2024), <<Word("TRF")>>, 0, 30, 70),
       Row(DateText(20, 1, 2024), <<Word("TRF")>>, 30, 0, -20)>>}

\* _parse_cws_strategy returns None instead of an empty frame; every other
\* strategy returns its list or frame, empty or not.
StrategyOutcomes(s) ==
    IF s = "cws"
    THEN {Raises, ReturnsNone} \cup {Returns(l) : l \in ChainLedgers}
    ELSE {Raises, Returns(<<>>)} \cup {Returns(l) : l \in ChainLedgers}

\* a balance-only marker line (Balance B/F alone) gives no strategy a row:
\* every strategy returns its empty result
MarkerOutcomes(s) == IF s = "cws" THEN {ReturnsNone} ELSE {Returns(<<>>)}

RegistrySet(c) == {Registry(c)[i] : i \in DOMAIN Registry(c)}

\* the strategy the chain calls next
NextStrategy == Registry(chain)[Len(consulted) + 1]

\* the test that accepts any result that is not None, an empty one included
AcceptedNotNone(o) == o.kind = "rows"

\* `if tx:` / `if df is not None and not df.empty:` / `if rows:`
Accepted(o) == o.kind = "rows" /\ o.rows # <<>>

\* the final fallback frame of extract_ambank
NoTransactions == <<Row(BadDate, <<Word("No transactions")>>, 0, 0, 0)>>

\* what a chain returns after its last strategy: [] (rhb), an empty frame
\* (maybank), the "No transactions" frame (ambank)
ExhaustedResult(c) == IF c = "ambank" THEN Some(NoTransactions) ELSE Some(<<>>)

\* one pass of parse_transactions_rhb's loop, or one try block of
\* extract_maybank: an exception is swallowed and the next strategy is tried
GuardedTry ==
    /\ chain \in {"rhb", "maybank"}
    /\ chain_pc = "run"
    /\ Len(consulted) < Len(Registry(chain))
    /\ consulted' = Append(consulted, NextStrategy)
    /\ IF Accepted(outcome[NextStrategy])
       THEN /\ result' = Some(outcome[NextStrategy].rows)
            /\ chain_pc' = "returned"
       ELSE UNCHANGED <<result, chain_pc>>
    /\ UNCHANGED <<chain, marker_only, outcome, notChain>>

\* parse_transactions_rhb: return []; extract_maybank: return an empty frame
GuardedExhausted ==
    /\ chain \in {"rhb", "maybank"}
    /\ chain_pc = "run"
    /\ Len(consulted) = Len(Registry(chain))
    /\ result' = ExhaustedResult(chain)
    /\ chain_pc' = "returned"
    /\ UNCHANGED <<chain, marker_only, outcome, consulted, notChain>>

\* one format block of extract_ambank: nothing catches an exception
AmbankTry ==
    /\ chain = "ambank"
    /\ chain_pc = "run"
    /\ Len(consulted) < Len(Registry(chain))
    /\ consulted' = Append(consulted, NextStrategy)
    /\ IF outcome[NextStrategy].kind = "raise"
       THEN /\ chain_pc' = "raised"
            /\ UNCHANGED result
       ELSE IF Accepted(outcome[NextStrategy])
       THEN /\ result' = Some(outcome[NextStrategy].rows)
            /\ chain_pc' = "returned"
       ELSE UNCHANGED <<result, chain_pc>>
    /\ UNCHANGED <<chain, marker_only, outcome, notChain>>

\* extract_ambank: the final fallback
AmbankExhausted ==
    /\ chain = "ambank"
    /\ chain_pc = "run"
    /\ Len(consulted) = Len(Registry(chain))
    /\ result' = ExhaustedResult(chain)
    /\ chain_pc' = "returned"
    /\ UNCHANGED <<chain, marker_only, outcome, consulted, notChain>>

InitChain ==
    /\ n_calls = 0
    /\ AppOff
    /\ TableOff
    /\ TextOff
    /\ chain \in {"rhb", "maybank", "ambank"}
    /\ outcome \in [RegistrySet(chain) -> UNION {StrategyOutcomes(s) : s \in RegistrySet(chain)}]
    /\ marker_only \in BOOLEAN
    /\ \A s \in RegistrySet(chain) :
          outcome[s] \in (IF marker_only THEN MarkerOutcomes(s) ELSE StrategyOutcomes(s))
    /\ consulted = <<>>
    /\ chain_pc = "run"
    /\ result = None

NextChain ==
    \/ GuardedTry
    \/ GuardedExhausted
    \/ AmbankTry
    \/ AmbankExhausted

SpecChain == InitChain /\ [][NextChain]_vars

\* ========================================================= table extractors
\* A table cell that holds a date: the date's text and whether blanks
\* surround it.  A cell that is None, empty or other text holds BadDate.
DateCell(dt, padded) == [text |-> dt, padded |-> padded]

\* to_float of cimb.py, bank_rakyat.py and bank_islam.py: float() of the text
\* without its commas, 0.0 when float() fails (a blank, a word, a trailing
\* marker)
to_float(x) == IF x.kind = "num" /\ x.mark = "" THEN x.val ELSE 0

\* valid_date: re.match(r"\d{2}/\d{2}/\d{4}", str(x).strip())
valid_date(x) == x.text # BadDate

\* `needle in text` over the description texts of the model
Within ==
    {<<"TOTAL", "TOTAL WITHDRAWAL">>, <<"CR", "SCRAP">>,
     <<"B/F", "B/F BALANCE">>, <<"C/F", "C/F BALANCE">>, <<"BIL", "BILL PAYMENT">>}

Contains(text, needle) == text = needle \/ <<needle, text>> \in Within

\* any(x in desc for x in phrases)
HasAny(desc, phrases) ==
    \E i \in DOMAIN desc : \E ph \in phrases : Contains(desc[i].text, ph)

TableDates ==
    {DateCell(DateText(5, 1, 2024), FALSE), DateCell(DateText(5, 1, 2024), TRUE),
     DateCell(BadDate, FALSE)}
TableDescs == {<<Word("PAYMENT")>>, <<Word("TOTAL WITHDRAWAL")>>}
MoneyCells == {Blank, Num(10, ""), Num(-5, "")}
BalanceCells == {Num(100, ""), Num(-20, "")}

\* ------------------------------------------------------------------- cimb.py
CimbTableRows ==
    [date : TableDates, desc : TableDescs, ref : {<<>>, <<Word("R1")>>},
     wd : MoneyCells, dep : MoneyCells, bal : BalanceCells]

CimbSkipPhrases ==
    {"NO OF WITHDRAWAL", "NO OF DEPOSIT", "TOTAL WITHDRAWAL", "TOTAL DEPOSIT",
     "END OF STATEMENT", "BAKI PENUTUP"}

\* key = (date, desc, debit, credit, balance): the date as the cell gives it,
\* the description before the reference is added
CimbKey(row) ==
    <<row.date, row.desc, to_float(row.wd), to_float(row.dep), to_float(row.bal)>>

CimbRecord(row) ==
    Row(row.date.text,
        IF row.ref # <<>> THEN row.desc \o <<Word("Ref:")>> \o row.ref ELSE row.desc,
        to_float(row.wd), to_float(row.dep), to_float(row.bal))

\* the checks a row passes before it is emitted
CimbKeeps(row, keys) ==
    /\ valid_date(row.date)
    /\ ~HasAny(row.desc, CimbSkipPhrases)
    /\ ~(to_float(row.wd) = 0 /\ to_float(row.dep) = 0)
    /\ CimbKey(row) \notin keys

\* one pass of extract_cimb's loop over the rows of a page's table
CimbRow ==
    /\ bank = "cimb"
    /\ cimb_summary = None
    /\ Len(txns) < MaxTableRows
    /\ \E row \in CimbTableRows :
         IF CimbKeeps(row, seen)
         THEN /\ seen' = seen \cup {CimbKey(row)}
              /\ txns' = Append(txns, CimbRecord(row))
         ELSE UNCHANGED <<txns, seen>>
    /\ UNCHANGED <<bank, is_casa, cimb_summary, notTable>>

\* od_util of compute_cimb_summary
CimbOdUtilAlways(ending, limit) == Abs(ending)

CimbOdUtil(ending, limit) ==
    IF limit > 0 THEN (IF ending < 0 THEN Abs(ending) ELSE 0) ELSE 0

\* od_pct of compute_cimb_summary; the limits and balances of the model make
\* the quotient a whole number
CimbOdPct(od_util, limit) ==
    IF limit > 0 THEN (od_util * 100) \div limit ELSE 0

\* the overdraft limits a caller may pass
OdLimits == {0, 50}

compute_cimb_summary(df, limit) ==
    [OpeningBalance |-> df[1].balance + df[1].debit - df[1].credit,
     TotalDebit |-> SumOf(df, "debit"),
     TotalCredit |-> SumOf(df, "credit"),
     EndingBalance |-> df[Len(df)].balance,
     HighestBalance |-> MaxBalance(df),
     LowestBalance |-> MinBalance(df),
     Swing |-> Abs(MaxBalance(df) - MinBalance(df)),
     OdUtil |-> CimbOdUtil(df[Len(df)].balance, limit),
     OdPct |-> CimbOdPct(CimbOdUtil(df[Len(df)].balance, limit), limit)]

\* compute_cimb_summary(df, od_limit) on the frame extract_cimb returned
CimbSummary ==
    /\ bank = "cimb"
    /\ cimb_summary = None
    /\ txns # <<>>
    /\ \E limit \in OdLimits :
         cimb_summary' = Some([od_limit |-> limit,
                               summary |-> compute_cimb_summary(txns, limit)])
    /\ UNCHANGED <<bank, is_casa, txns, seen, notTable>>

\* ------------------------------------------------------------ bank_rakyat.py
RakyatTableRows ==
    [short : BOOLEAN, date : TableDates, desc : TableDescs \cup {<<Word("BILL PAYMENT")>>},
     debit : MoneyCells, credit : MoneyCells, balance : BalanceCells]

RakyatSkipWords == {"BAKI PERMULAAN", "BAKI PENUTUP", "JUMLAH", "TOTAL", "BIL / NO"}

RakyatKeeps(row) ==
    /\ ~row.short
    /\ ~HasAny(row.desc, RakyatSkipWords)
    /\ valid_date(row.date)

RakyatRecord(row) ==
    Row(row.date.text, row.desc,
        to_float(row.debit), to_float(row.credit), to_float(row.balance))

\* one pass of extract_bank_rakyat's loop over the rows of a page's table
RakyatRow ==
    /\ bank = "bank_rakyat"
    /\ Len(txns) < MaxTableRows
    /\ \E row \in RakyatTableRows :
         IF RakyatKeeps(row)
         THEN txns' = Append(txns, RakyatRecord(row))
         ELSE UNCHANGED txns
    /\ UNCHANGED <<bank, is_casa, seen, cimb_summary, notTable>>

\* ------------------------------------- unnamed/part_000: extract_bank_rakyat
\* The copy of the extractor differs in its skip_words: "BIL" and "NO" in
\* place of "BIL / NO".
Part000SkipWords == {"BAKI PERMULAAN", "BAKI PENUTUP", "JUMLAH", "TOTAL", "BIL", "NO"}

Part000Keeps(row) ==
    /\ ~row.short
    /\ ~HasAny(row.desc, Part000SkipWords)
    /\ valid_date(row.date)

\* one row of a table, given to the loop of both implementations
RakyatPairRow ==
    /\ bank = "bank_rakyat_pair"
    /\ Len(txns) < MaxTableRows
    /\ Len(txns_000) < MaxTableRows
    /\ \E row \in RakyatTableRows :
         /\ txns' = IF RakyatKeeps(row) THEN Append(txns, RakyatRecord(row)) ELSE txns
         /\ txns_000' = IF Part000Keeps(row) THEN Append(txns_000, RakyatRecord(row))
                        ELSE txns_000
    /\ UNCHANGED <<bank, is_casa, seen, cimb_summary, notPair>>

\* ------------------------------------------------------------- bank_islam.py
\* short: the row has too few cells for the layout (IndexError);
\* no_desc: the description cell is None (AttributeError)
IslamTableRows ==
    [short : BOOLEAN, no_desc : BOOLEAN, date : TableDates, desc : TableDescs,
     debit : MoneyCells, credit : MoneyCells, balance : BalanceCells]

\* CASA: the first line of the cell, stripped, must match \d{2}/\d{2}/\d{4};
\* normal: the cell as it is must match \d{1,2}/\d{1,2}/\d{2,4}
IslamKeeps(row, casa) ==
    /\ ~row.short
    /\ row.date.text # BadDate
    /\ casa \/ ~row.date.padded
    /\ ~row.no_desc

IslamRecord(row) ==
    Row(row.date.text, row.desc,
        to_float(row.debit), to_float(row.credit), to_float(row.balance))

\* a new page: is_casa = len(table[0]) >= 11
IslamPage ==
    /\ bank = "bank_islam"
    /\ is_casa' \in BOOLEAN
    /\ UNCHANGED <<bank, txns, seen, cimb_summary, notTable>>

\* one pass of extract_bank_islam's loop over the rows of a page's table
IslamRow ==
    /\ bank = "bank_islam"
    /\ Len(txns) < MaxTableRows
    /\ \E row \in IslamTableRows :
         IF IslamKeeps(row, is_casa)
         THEN txns' = Append(txns, IslamRecord(row))
         ELSE UNCHANGED txns
    /\ UNCHANGED <<bank, is_casa, seen, cimb_summary, notTable>>

InitTable ==
    /\ n_calls = 0
    /\ AppOff
    /\ ChainOff
    /\ TextOff
    /\ bank \in {"cimb", "bank_rakyat", "bank_rakyat_pair", "bank_islam"}
    /\ is_casa = FALSE
    /\ txns = <<>>
    /\ seen = {}
    /\ cimb_summary = None
    /\ txns_000 = <<>>

NextTable ==
    \/ CimbRow
    \/ CimbSummary
    \/ RakyatRow
    \/ RakyatPairRow
    \/ IslamPage
    \/ IslamRow

SpecTable == InitTable /\ [][NextTable]_vars

\* ------------------------------------------------------------ text parsers
\* A line of extracted text: the date it opens with (BadDate when the
\* parser's date pattern does not match) and the tokens after the date.
Line(dt, toks) == [date |-> dt, toks |-> toks]

\* the tolerance 0.05 the parsers compare with; amounts are in hundredths
Eps == 5

TextDates == {DateText(5, 1, 2024), BadDate}

RECURSIVE Join(_)
\* " ".join(buffer)
Join(buffer) == IF buffer = <<>> THEN <<>> ELSE Head(buffer) \o Join(Tail(buffer))

\* re.search(r"\d+\.\d{2}", line)
HasMoney(toks) == \E i \in DOMAIN toks : toks[i].kind = "num"

\* Series.dt.strftime('%d/%m/%Y')
Strftime(ts) ==
    IF ts = NaT THEN BadDate
    ELSE DateText((ts % 31) + 1, ((ts \div 31) % 12) + 1, ts \div 372)

\* the open transaction: the dict, and the positions of `rows` that hold
\* that same dict
Open(tx, at) == Some([tx |-> tx, at |-> at])

\* assigning the description of the open dict shows in every position
\* that holds it
Redescribe(held, at, desc) ==
    [i \in DOMAIN held |->
        IF i \in at THEN [held[i] EXCEPT !.description = desc] ELSE held[i]]

\* -------------------------------------------------------- ambank.py format 1
\* re.match(r"[\d,]+\.\d{2}(DR|CR)?$", part)
AmbankNum(t) == t.kind = "num" /\ t.val >= 0 /\ t.mark \in {"", "DR", "CR"}

RECURSIVE TrailingNums(_)
\* the scan from the last part back to the first part that is no number
TrailingNums(parts) ==
    IF parts = <<>> \/ ~AmbankNum(parts[Len(parts)]) THEN <<>>
    ELSE Append(TrailingNums(SubSeq(parts, 1, Len(parts) - 1)), parts[Len(parts)])

AmbankToks ==
    {<<Word("TRF"), Num(30, mk), Num(b, "")>> : mk \in {"", "DR"}, b \in {70, 100, 133}}
    \cup {<<Word("TRF")>>, <<Word("BALANCE B/F"), Num(100, "")>>,
          <<Word("TRF"), Num(10, ""), Num(30, ""), Num(70, "")>>}

AmbankLines == {Line(dt, toks) : dt \in TextDates, toks \in AmbankToks}

\* debit and credit of a format-1 row from the balance before it
AmbankMovement(amt, bal, prev) ==
    IF prev = None THEN <<0, 0>>
    ELSE LET diff == bal - prev[1]
         IN  IF Abs(diff - amt) < Eps THEN <<0, amt>>
             ELSE IF Abs(diff + amt) < Eps THEN <<amt, 0>>
             ELSE <<0, 0>>

\* one pass of the format-1 loop over the lines of the statement
AmbankLine ==
    /\ parser = "ambank"
    /\ text_pc = "scan"
    /\ n_lines < MaxLines
    /\ n_lines' = n_lines + 1
    /\ \E line \in AmbankLines :
        LET nums == TrailingNums(line.toks)
            amt == nums[1].val
            bal == nums[Len(nums)].val
            mv == AmbankMovement(amt, bal, prev_balance)
            tx == Row(line.date, nums, mv[1], mv[2], bal)
        IN  /\ doc' = Append(doc, line)
            /\ IF line.date # BadDate
               THEN IF Len(nums) >= 2
                    THEN /\ rows' = Append(rows, tx)
                         /\ current_tx' = Open(tx, {Len(rows) + 1})
                         /\ prev_balance' = Some(bal)
                    ELSE UNCHANGED <<rows, current_tx, prev_balance>>
               ELSE IF current_tx # None /\ ~HasMoney(line.toks)
                    THEN LET desc == current_tx[1].tx.description \o line.toks
                         IN  /\ rows' = Redescribe(rows, current_tx[1].at, desc)
                             /\ current_tx' =
                                   Open([current_tx[1].tx EXCEPT !.description = desc],
                                        current_tx[1].at)
                             /\ UNCHANGED prev_balance
                    ELSE UNCHANGED <<rows, current_tx, prev_balance>>
    /\ UNCHANGED <<parser, text_pc, desc_buffer, pbbVars, ocbcVars, notText>>

\* the end of the text: `if rows: return pd.DataFrame(rows, ...)`
AmbankEnd ==
    /\ parser = "ambank"
    /\ text_pc = "scan"
    /\ text_pc' = "done"
    /\ UNCHANGED <<parser, n_lines, doc, rows, prev_balance, current_tx, desc_buffer,
                   pbbVars, ocbcVars, notText>>

\* ------------------------------------------------- maybank.py CWS strategy
CwsToks ==
    {<<Word("TRF"), Num(30, s), Num(b, "")>> : s \in {"+", "-"}, b \in {70, 130}}
    \cup {<<Word("TRF")>>}

CwsLines == {Line(dt, toks) : dt \in TextDates, toks \in CwsToks}

\* AMOUNT_PATTERN: an amount, a sign, a balance
AmountPattern(toks, i) ==
    /\ i + 1 \in DOMAIN toks
    /\ toks[i].kind = "num" /\ toks[i].val >= 0 /\ toks[i].mark \in {"+", "-"}
    /\ toks[i + 1].kind = "num" /\ toks[i + 1].val >= 0

\* AMOUNT_PATTERN.search(line): the first match, or None
AmountSearch(toks) ==
    LET hits == {i \in DOMAIN toks : AmountPattern(toks, i)}
    IN  IF hits = {} THEN None
        ELSE Some(CHOOSE i \in hits : \A j \in hits : i <= j)

\* `current_txn["description"] = ...; txns.append(current_txn)`
CwsSave(held, cur, buffer) ==
    IF cur = None THEN held
    ELSE Append(Redescribe(held, cur[1].at, Join(buffer)),
                [cur[1].tx EXCEPT !.description = Join(buffer)])

\* the open dict after it was saved: it stays open, and `txns` holds it
CwsSaved(held, cur, buffer) ==
    IF cur = None THEN None
    ELSE Open([cur[1].tx EXCEPT !.description = Join(buffer)],
              cur[1].at \cup {Len(held) + 1})

\* one pass of the CWS loop over the lines of the statement
CwsLine ==
    /\ parser = "maybank_cws"
    /\ text_pc = "scan"
    /\ n_lines < MaxLines
    /\ n_lines' = n_lines + 1
    /\ \E line \in CwsLines :
        LET m == AmountSearch(line.toks)
            amt == line.toks[m[1]].val
            sign == line.toks[m[1]].mark
            bal == line.toks[m[1] + 1].val
            debit == IF sign = "-" THEN amt ELSE 0
            credit == IF sign = "+" THEN amt ELSE 0
            desc_text == <<DateWord(line.date)>> \o SubSeq(line.toks, 1, m[1] - 1)
        IN  /\ doc' = Append(doc, line)
            /\ IF line.date # BadDate
               THEN /\ rows' = CwsSave(rows, current_tx, desc_buffer)
                    /\ IF m = None
                       THEN /\ current_tx' = CwsSaved(rows, current_tx, desc_buffer)
                            /\ desc_buffer' = <<>>
                       ELSE /\ current_tx' = Open(Row(line.date, <<>>, debit, credit, bal), {})
                            /\ desc_buffer' = <<desc_text>>
               ELSE /\ desc_buffer' =
                           IF current_tx # None THEN Append(desc_buffer, line.toks)
                           ELSE desc_buffer
                    /\ UNCHANGED <<rows, current_tx>>
    /\ UNCHANGED <<parser, text_pc, prev_balance, pbbVars, ocbcVars, notText>>

\* after the loop: the last transaction is appended and the dates are
\* rewritten by to_datetime(...).dt.strftime
CwsEnd ==
    /\ parser = "maybank_cws"
    /\ text_pc = "scan"
    /\ text_pc' = "done"
    /\ LET saved == CwsSave(rows, current_tx, desc_buffer)
       IN  rows' = [i \in DOMAIN saved |->
                        [saved[i] EXCEPT !.date = Strftime(ToDatetime(saved[i].date))]]
    /\ UNCHANGED <<parser, n_lines, doc, prev_balance, current_tx, desc_buffer,
                   pbbVars, ocbcVars, notText>>

\* --------------------------------------------------------- public_bank.py
TX_KEYWORDS == {"TSFR", "DEP"}
IGNORE_PREFIXES == {"PAGE"}

\* the year datetime.now() may give
ClockYears == {2024, 2025}

\* dd/mm dates: the statement prints no year on a transaction line
PbbDates == {DateText(5, 1, 0), BadDate}

PbbToks ==
    {<<Word(w), Num(30, ""), Num(b, "")>> : w \in {"TSFR", "DEP"}, b \in {70, 130}}
    \cup {<<Word("BALANCE"), Num(100, "")>>, <<Word("TSFR")>>, <<Word("SCRAP")>>,
          <<Word("PAGE")>>, <<Num(30, ""), Num(70, "")>>}

PbbLines == {Line(dt, toks) : dt \in PbbDates, toks \in PbbToks}

\* the whole text of a line
LineText(line) ==
    IF line.date = BadDate THEN line.toks ELSE <<DateWord(line.date)>> \o line.toks

StartsWith(line, prefixes) ==
    /\ line.date = BadDate
    /\ line.toks # <<>>
    /\ line.toks[1].kind = "word"
    /\ line.toks[1].text \in prefixes

is_ignored(line) == StartsWith(line, IGNORE_PREFIXES)

is_tx_start(line) == StartsWith(line, TX_KEYWORDS)

PlainMoney(t) == t.kind = "num" /\ t.val >= 0 /\ t.mark = ""

\* AMOUNT_BAL.search(line): an amount and a balance end the line
AmountBal(line) ==
    LET n == Len(line.toks)
    IN  n >= 2 /\ PlainMoney(line.toks[n - 1]) /\ PlainMoney(line.toks[n])

\* DATE_LINE.match(line)
DateLine(line) == line.date # BadDate /\ line.toks # <<>>

\* BAL_ONLY.match(line)
BalOnly(line) ==
    LET n == Len(line.toks)
    IN  /\ line.date # BadDate
        /\ n >= 2
        /\ line.toks[1].kind = "word" /\ line.toks[1].text = "BALANCE"
        /\ PlainMoney(line.toks[n])

\* line.replace(amount_match.group(0), "")
WithoutAmountBal(text) == SubSeq(text, 1, Len(text) - 2)

\* debit and credit of a row: by comparison with the balance before it,
\* by keyword when there is none
PbbMovement(amount, balance, prev, final_desc) ==
    IF prev # None
    THEN IF balance < prev[1] THEN <<amount, 0>>
         ELSE IF balance > prev[1] THEN <<0, amount>>
         ELSE <<0, 0>>
    ELSE IF HasAny(final_desc, {"CR", "DEP"}) THEN <<0, amount>>
         ELSE <<amount, 0>>

\* iso_date: the short date with the detected year, 1 January without one
IsoDate(date, year) ==
    IF date = None THEN DateText(1, 1, year) ELSE DateText(date[1].d, date[1].m, year)

\* the start of a page's loop
PbbPage ==
    /\ parser = "public_bank"
    /\ text_pc = "scan"
    /\ current_date' = None
    /\ prev_balance' = None
    /\ desc_accum' = <<>>
    /\ waiting_for_amount' = FALSE
    /\ UNCHANGED <<parser, text_pc, n_lines, doc, rows, current_tx, desc_buffer,
                   statement_year, detected_year, ocbcVars, notText>>

\* one pass of the loop over the lines of a page
PbbLine ==
    /\ parser = "public_bank"
    /\ text_pc = "scan"
    /\ n_lines < MaxLines
    /\ n_lines' = n_lines + 1
    /\ \E line \in PbbLines :
        LET n == Len(line.toks)
            amount == line.toks[n - 1].val
            balance == line.toks[n].val
            is_new_start == DateLine(line) \/ is_tx_start(line)
            date_now == IF DateLine(line) THEN Some(line.date) ELSE current_date
            final_desc ==
                IF is_new_start
                THEN IF DateLine(line) THEN line.toks
                     ELSE WithoutAmountBal(LineText(line))
                ELSE desc_accum \o WithoutAmountBal(LineText(line))
            mv == PbbMovement(amount, balance, prev_balance, final_desc)
        IN  /\ doc' = Append(doc, line)
            /\ IF is_ignored(line)
               THEN UNCHANGED <<rows, current_date, prev_balance, desc_accum,
                                waiting_for_amount>>
               ELSE IF BalOnly(line)
               THEN /\ current_date' = Some(line.date)
                    /\ prev_balance' = Some(balance)
                    /\ desc_accum' = <<>>
                    /\ waiting_for_amount' = FALSE
                    /\ UNCHANGED rows
               ELSE IF AmountBal(line)
               THEN /\ current_date' = (IF is_new_start THEN date_now ELSE current_date)
                    /\ rows' = Append(rows,
                           Row(IsoDate(current_date', detected_year), final_desc,
                               mv[1], mv[2], balance))
                    /\ prev_balance' = Some(balance)
                    /\ desc_accum' = <<>>
                    /\ waiting_for_amount' = FALSE
               ELSE IF is_new_start
               THEN /\ desc_accum' = (IF DateLine(line) THEN line.toks ELSE LineText(line))
                    /\ current_date' = date_now
                    /\ waiting_for_amount' = TRUE
                    /\ UNCHANGED <<rows, prev_balance>>
               ELSE IF waiting_for_amount
               THEN /\ desc_accum' = desc_accum \o LineText(line)
                    /\ UNCHANGED <<rows, current_date, prev_balance, waiting_for_amount>>
               ELSE UNCHANGED <<rows, current_date, prev_balance, desc_accum,
                                waiting_for_amount>>
    /\ UNCHANGED <<parser, text_pc, current_tx, desc_buffer,
                   statement_year, detected_year, ocbcVars, notText>>

\* `return all_transactions`
PbbEnd ==
    /\ parser = "public_bank"
    /\ text_pc = "scan"
    /\ text_pc' = "done"
    /\ UNCHANGED <<parser, n_lines, doc, rows, prev_balance, current_tx, desc_buffer,
                   pbbVars, ocbcVars, notText>>

\* ------------------------------------------------------------------ ocbc.py
\* re.match(r"[\d,]+\.\d{2}$", part)
OcbcNum(t) == t.kind = "num" /\ t.val >= 0 /\ t.mark = ""

RECURSIVE OcbcAmounts(_)
\* the scan from the last part back to the first part that is no amount
OcbcAmounts(parts) ==
    IF parts = <<>> \/ ~OcbcNum(parts[Len(parts)]) THEN <<>>
    ELSE Append(OcbcAmounts(SubSeq(parts, 1, Len(parts) - 1)), parts[Len(parts)])

OcbcCreditWords == {"CR /IB", "CR INWARD"}
OcbcDebitWords == {"DR /IB", "DEBIT AS ADVISED", "DUITNOW SC"}
OcbcStopWords == {"PAGE", "STATEMENT", "SUMMARY", "TOTAL", "WITHDRAWALS", "DEPOSITS"}

\* the Balance B/F amounts a page's text may hold
OcbcSeeds == {100}

\* the line of a page that balance_bf_pattern finds
BalanceBfLine(amount) == Line(BadDate, <<Word("BALANCE B/F"), Num(amount, "")>>)

OcbcToks ==
    {<<Word(w), Num(30, ""), Num(b, "")>> : w \in {"TRF", "DR /IB"}, b \in {70, 100}}
    \cup {<<Word("TRF")>>, <<Word("TOTAL")>>}

OcbcLines == {Line(dt, toks) : dt \in TextDates, toks \in OcbcToks}

\* debit and credit of a row: by keyword first, then from the balance before
OcbcMovement(tx_amount, balance, prev, description) ==
    IF HasAny(description, OcbcCreditWords) THEN <<0, tx_amount>>
    ELSE IF HasAny(description, OcbcDebitWords) THEN <<tx_amount, 0>>
    ELSE IF prev = None THEN <<0, 0>>
    ELSE LET diff == balance - prev[1]
         IN  IF Abs(diff - tx_amount) < Eps THEN <<0, tx_amount>>
             ELSE IF Abs(diff + tx_amount) < Eps THEN <<tx_amount, 0>>
             ELSE <<0, 0>>

\* a page whose text holds a Balance B/F line begins: the first one found
\* seeds balance_bf and prev_balance
OcbcPage ==
    /\ parser = "ocbc"
    /\ text_pc = "scan"
    /\ n_lines < MaxLines
    /\ n_lines' = n_lines + 1
    /\ \E amount \in OcbcSeeds :
        /\ doc' = Append(doc, BalanceBfLine(amount))
        /\ IF balance_bf = None
           THEN /\ balance_bf' = Some(amount)
                /\ prev_balance' = Some(amount)
           ELSE UNCHANGED <<balance_bf, prev_balance>>
    /\ UNCHANGED <<parser, text_pc, rows, current_tx, desc_buffer, pbbVars, notText>>

\* one pass of the loop over the lines of a page
OcbcLine ==
    /\ parser = "ocbc"
    /\ text_pc = "scan"
    /\ n_lines < MaxLines
    /\ n_lines' = n_lines + 1
    /\ \E line \in OcbcLines :
        LET amounts == OcbcAmounts(line.toks)
            desc_parts == SubSeq(line.toks, 1, Len(line.toks) - Len(amounts))
            tx_amount == amounts[1].val
            balance == amounts[Len(amounts)].val
            mv == OcbcMovement(tx_amount, balance, prev_balance, desc_parts)
            tx == Row(line.date, desc_parts, mv[1], mv[2], balance)
        IN  /\ doc' = Append(doc, line)
            /\ IF line.date # BadDate
               THEN IF Len(amounts) < 2
                    THEN UNCHANGED <<rows, current_tx, prev_balance>>
                    ELSE /\ rows' = Append(rows, tx)
                         /\ prev_balance' = Some(balance)
                         /\ current_tx' = Open(tx, {Len(rows) + 1})
               ELSE IF /\ current_tx # None
                       /\ ~HasMoney(line.toks)
                       /\ ~HasAny(line.toks, OcbcStopWords)
                    THEN LET desc == current_tx[1].tx.description \o line.toks
                         IN  /\ rows' = Redescribe(rows, current_tx[1].at, desc)
                             /\ current_tx' =
                                   Open([current_tx[1].tx EXCEPT !.description = desc],
                                        current_tx[1].at)
                             /\ UNCHANGED prev_balance
                    ELSE UNCHANGED <<rows, current_tx, prev_balance>>
    /\ UNCHANGED <<parser, text_pc, desc_buffer, pbbVars, ocbcVars, notText>>

\* after the pages: a month without transactions yields the Balance B/F row
OcbcEnd ==
    /\ parser = "ocbc"
    /\ text_pc = "scan"
    /\ text_pc' = "done"
    /\ rows' = IF rows = <<>> /\ balance_bf # None
               THEN <<Row(BadDate, <<Word("Balance B/F")>>, 0, 0, balance_bf[1])>>
               ELSE rows
    /\ UNCHANGED <<parser, n_lines, doc, prev_balance, current_tx, desc_buffer,
                   pbbVars, ocbcVars, notText>>

\* --------------------------------------------------------- bank_muamalat.py
\* A line here is the words that share the top of a date anchor: line.date is
\* the word DATE_RE matches ("45/13/24" matches it too), BadDate when no
\* word of the line does.
MuamalatDates == {DateText(5, 1, 24), DateText(45, 13, 24), BadDate}

MuamalatToks ==
    {<<Word("TRF"), Num(30, ""), Num(b, "")>> : b \in {70, 130}}
    \cup {<<Word("CR TRF"), Num(30, "")>>, <<Word("TRF")>>}

MuamalatLines == {Line(dt, toks) : dt \in MuamalatDates, toks \in MuamalatToks}

\* the words of the line that AMOUNT_RE matches and ZERO_RE does not
MuamalatAmounts(toks) ==
    SelectSeq(toks, LAMBDA t : t.kind = "num" /\ t.mark = "" /\ t.val > 0)

\* the words of the line that are neither date nor amount
MuamalatDescription(toks) == SelectSeq(toks, LAMBDA t : t.kind = "word")

\* debit and credit of a row, with `debit or 0.0` and `credit or 0.0` applied
MuamalatMovement(txn_amount, prev, current_balance, description) ==
    IF txn_amount # None /\ prev # None
    THEN LET delta == current_balance - prev[1]
         IN  IF delta > 0 THEN <<0, Abs(delta)>>
             ELSE IF delta < 0 THEN <<Abs(delta), 0>>
             ELSE <<0, 0>>
    ELSE LET amount == IF txn_amount = None THEN 0 ELSE txn_amount[1]
         IN  IF \/ description # <<>> /\ description[1].text \in {"CR TRF"}
                \/ HasAny(description, {"PROFIT PAID"})
             THEN <<0, amount>>
             ELSE <<amount, 0>>

\* datetime.strptime(text, "%d/%m/%y"): None stands for the ValueError
Strptime(date) ==
    IF ToDatetime(date) = NaT THEN None
    ELSE Some(DateText(date.d, date.m, IF date.y < 69 THEN 2000 + date.y ELSE 1900 + date.y))

\* one date anchor, or one line without any, of the while loop
MuamalatLine ==
    /\ parser = "bank_muamalat"
    /\ text_pc = "scan"
    /\ n_lines < MaxLines
    /\ n_lines' = n_lines + 1
    /\ \E line \in MuamalatLines :
        LET amounts == MuamalatAmounts(line.toks)
            description == MuamalatDescription(line.toks)
            current_balance == amounts[Len(amounts)].val
            txn_amount == IF Len(amounts) > 1 THEN Some(amounts[Len(amounts) - 1].val)
                          ELSE None
            mv == MuamalatMovement(txn_amount, prev_balance, current_balance, description)
            iso_date == Strptime(line.date)
        IN  /\ doc' = Append(doc, line)
            /\ IF line.date = BadDate \/ amounts = <<>>
               THEN UNCHANGED <<text_pc, rows, prev_balance>>
               ELSE IF iso_date = None
               THEN /\ text_pc' = "raised"
                    /\ UNCHANGED <<rows, prev_balance>>
               ELSE /\ rows' = Append(rows, Row(iso_date[1], description, mv[1], mv[2],
                                               current_balance))
                    /\ prev_balance' = Some(current_balance)
                    /\ UNCHANGED text_pc
    /\ UNCHANGED <<parser, current_tx, desc_buffer, pbbVars, ocbcVars, notText>>

\* after the pages: return transactions
MuamalatEnd ==
    /\ parser = "bank_muamalat"
    /\ text_pc = "scan"
    /\ text_pc' = "done"
    /\ UNCHANGED <<parser, n_lines, doc, rows, prev_balance, current_tx, desc_buffer,
                   pbbVars, ocbcVars, notText>>

\* ------------------------------------------- rhb.py, account-statement format
\* "5 Jan": DATE_START_RE gives a day and a month, the year is the statement's
RhbDates == {DateText(5, 1, 0), BadDate}

RhbToks ==
    {<<Word("TRF"), Num(30, ""), Num(b, "")>> : b \in {70, 130}}
    \cup {<<Word("B/F BALANCE"), Num(100, "")>>, <<Word("C/F BALANCE"), Num(100, "")>>,
          <<Word("TRF"), Num(30, ""), Num(20, "-")>>, <<Word("TRF")>>, <<Word("PAGE NO")>>}

RhbLines == {Line(dt, toks) : dt \in RhbDates, toks \in RhbToks}

\* NOISE_LINE_RE.match(line)
RhbNoise(line) == StartsWith(line, {"PAGE NO"})

\* _money_to_float: a trailing "-" makes the value negative
money_to_float(t) == IF t.mark = "-" THEN -Abs(t.val) ELSE t.val

\* money_idx: the positions of rest_tokens that _MONEY_TOKEN_RE matches
RhbMoneyIdx(toks) ==
    {i \in DOMAIN toks : toks[i].kind = "num" /\ toks[i].mark \in {"", "+", "-"}}

\* one pass of the loop over the lines of a page
RhbLine ==
    /\ parser = "rhb"
    /\ text_pc = "scan"
    /\ n_lines < MaxLines
    /\ n_lines' = n_lines + 1
    /\ \E line \in RhbLines :
        LET money_idx == RhbMoneyIdx(line.toks)
            first == CHOOSE i \in money_idx : \A j \in money_idx : i <= j
            last == CHOOSE i \in money_idx : \A j \in money_idx : j <= i
            balance == money_to_float(line.toks[last])
            description == SubSeq(line.toks, 1, first - 1)
            delta == balance - prev_balance[1]
            tx == Row(DateText(line.date.d, line.date.m, detected_year), description,
                      IF delta < 0 THEN Abs(delta) ELSE 0,
                      IF delta > 0 THEN delta ELSE 0,
                      balance)
        IN  /\ doc' = Append(doc, line)
            /\ IF RhbNoise(line)
               THEN /\ current_tx' = None
                    /\ UNCHANGED <<rows, prev_balance>>
               ELSE IF line.date # BadDate
               THEN IF money_idx = {}
                    THEN /\ current_tx' = None
                         /\ UNCHANGED <<rows, prev_balance>>
                    ELSE IF HasAny(description, {"B/F", "C/F"}) \/ prev_balance = None
                    THEN /\ prev_balance' = Some(balance)
                         /\ current_tx' = None
                         /\ UNCHANGED rows
                    ELSE /\ rows' = Append(rows, tx)
                         /\ prev_balance' = Some(balance)
                         /\ current_tx' = Open(tx, {Len(rows) + 1})
               ELSE IF current_tx # None /\ ~(Len(line.toks) = 1 /\ money_idx # {})
               THEN LET desc == current_tx[1].tx.description \o line.toks
                    IN  /\ rows' = Redescribe(rows, current_tx[1].at, desc)
                        /\ current_tx' =
                              Open([current_tx[1].tx EXCEPT !.description = desc],
                                   current_tx[1].at)
                        /\ UNCHANGED prev_balance
               ELSE UNCHANGED <<rows, current_tx, prev_balance>>
    /\ UNCHANGED <<parser, text_pc, desc_buffer, pbbVars, ocbcVars, notText>>

\* after the pages: return transactions
RhbEnd ==
    /\ parser = "rhb"
    /\ text_pc = "scan"
    /\ text_pc' = "done"
    /\ UNCHANGED <<parser, n_lines, doc, rows, prev_balance, current_tx, desc_buffer,
                   pbbVars, ocbcVars, notText>>

\* ------------------------------------- maybank.py, _parse_mytutor_strategy
\* A line here is the words that share the y of a date token.
MytutorToks ==
    {<<Word("TRF"), Num(30, s), Num(b, "")>> : s \in {"+", "-", ""}, b \in {70, 130}}
    \cup {<<Word("DEPOSIT"), Num(30, ""), Num(70, "")>>, <<Word("TRF"), Num(100, "")>>,
          <<Word("TRF"), Num(30, ""), Num(20, "-")>>, <<Word("TRF")>>}

MytutorLines == {Line(dt, toks) : dt \in TextDates, toks \in MytutorToks}

\* the words of the line that AMOUNT_RE_A matches
MytutorAmounts(toks) ==
    SelectSeq(toks, LAMBDA t : t.kind = "num" /\ t.val >= 0 /\ t.mark \in {"", "+", "-"})

\* parse_amt: the value, and the sign that trails it or None
parse_amt(t) == [v |-> t.val, sign |-> IF t.mark \in {"+", "-"} THEN Some(t.mark) ELSE None]

\* "Logic to determine Debit vs Credit": Method A with a previous balance,
\* Method B without one
MytutorMovement(txn, balance_val, prev, description) ==
    IF prev # None
    THEN LET delta == balance_val - prev[1]
         IN  IF delta > 0 THEN <<0, Abs(delta)>>
             ELSE IF delta < 0 THEN <<Abs(delta), 0>>
             ELSE IF txn.sign = Some("+") THEN <<0, txn.v>>
             ELSE IF txn.sign = Some("-") THEN <<txn.v, 0>>
             ELSE <<0, 0>>
    ELSE IF txn.sign = Some("+") THEN <<0, txn.v>>
         ELSE IF txn.sign = Some("-") THEN <<txn.v, 0>>
         ELSE IF HasAny(description, {"DEPOSIT", "TRANSFER FROM", "CREDIT"})
         THEN <<0, txn.v>>
         ELSE <<txn.v, 0>>

\* one date token of the loop over the words of a page
MytutorLine ==
    /\ parser = "maybank_mytutor"
    /\ text_pc = "scan"
    /\ n_lines < MaxLines
    /\ n_lines' = n_lines + 1
    /\ \E line \in MytutorLines :
        LET amounts == MytutorAmounts(line.toks)
            desc_parts == SelectSeq(line.toks, LAMBDA t : t.kind = "word")
            balance_val == parse_amt(amounts[Len(amounts)]).v
            txn == IF Len(amounts) > 1 THEN parse_amt(amounts[Len(amounts) - 1])
                   ELSE [v |-> 0, sign |-> None]
            mv == MytutorMovement(txn, balance_val, prev_balance, desc_parts)
            date_display == Strftime(ToDatetime(line.date))
        IN  /\ doc' = Append(doc, line)
            /\ IF ToDatetime(line.date) = NaT \/ amounts = <<>>
               THEN UNCHANGED <<rows, prev_balance>>
               ELSE /\ rows' = Append(rows, Row(date_display, desc_parts, mv[1], mv[2],
                                               balance_val))
                    /\ prev_balance' = Some(balance_val)
    /\ UNCHANGED <<parser, text_pc, current_tx, desc_buffer, pbbVars, ocbcVars, notText>>

\* after the pages: return pd.DataFrame(transactions)
MytutorEnd ==
    /\ parser = "maybank_mytutor"
    /\ text_pc = "scan"
    /\ text_pc' = "done"
    /\ UNCHANGED <<parser, n_lines, doc, rows, prev_balance, current_tx, desc_buffer,
                   pbbVars, ocbcVars, notText>>

\* ------------------------------- rhb.py, islamic and conventional text formats
\* debit and credit of a row with absolute value instead of the signed delta
RhbTextMovementAbs(balance, prev) ==
    <<Abs(balance - prev), Abs(balance - prev)>>

\* delta = balance - previous_balance; debit when it is negative, credit when
\* it is positive
RhbTextMovement(balance, prev) ==
    LET delta == balance - prev
    IN  <<IF delta < 0 THEN Abs(delta) ELSE 0, IF delta > 0 THEN delta ELSE 0>>

\* balance_re.search(line.strip()): the money token that ends the line
RhbBalMatch(toks) ==
    IF toks # <<>> /\ Len(toks) \in RhbMoneyIdx(toks) THEN Some(toks[Len(toks)]) ELSE None

\* balance_re.sub("", line) with the date removed: the line without its last
\* token
RhbTextDesc(toks) == SubSeq(toks, 1, Len(toks) - 1)

\* datetime.strptime(f"{day:02d} {month} {year}", "%d %b %Y"): None stands for
\* the ValueError
RhbStrptime(date, year) ==
    IF ToDatetime(date) = NaT THEN None ELSE Some(DateText(date.d, date.m, year))

\* a line of either format once it holds a date and a balance and is no
\* marker the format knows
RhbTextRow(line, balance) ==
    LET date_iso == RhbStrptime(line.date, detected_year)
        mv == RhbTextMovement(balance, prev_balance[1])
    IN  IF prev_balance = None
        THEN /\ prev_balance' = Some(balance)
             /\ UNCHANGED <<text_pc, rows>>
        ELSE IF date_iso = None
        THEN /\ text_pc' = "raised"
             /\ UNCHANGED <<rows, prev_balance>>
        ELSE /\ rows' = Append(rows, Row(date_iso[1], RhbTextDesc(line.toks), mv[1], mv[2],
                                        balance))
             /\ prev_balance' = Some(balance)
             /\ UNCHANGED text_pc

\* _parse_rhb_islamic_text: one pass of the loop over the lines of a page
RhbIslamicLine ==
    /\ parser = "rhb_islamic"
    /\ text_pc = "scan"
    /\ n_lines < MaxLines
    /\ n_lines' = n_lines + 1
    /\ \E line \in RhbLines :
        LET bal_match == RhbBalMatch(line.toks)
            balance == money_to_float(bal_match[1])
        IN  /\ doc' = Append(doc, line)
            /\ IF bal_match = None \/ line.date = BadDate
               THEN UNCHANGED <<text_pc, rows, prev_balance>>
               ELSE IF HasAny(line.toks, {"B/F", "C/F"})
               THEN /\ prev_balance' = Some(balance)
                    /\ UNCHANGED <<text_pc, rows>>
               ELSE RhbTextRow(line, balance)
    /\ UNCHANGED <<parser, current_tx, desc_buffer, pbbVars, ocbcVars, notText>>

\* _parse_rhb_conventional_text: one pass of the loop over the lines of a page
RhbConventionalLine ==
    /\ parser = "rhb_conventional"
    /\ text_pc = "scan"
    /\ n_lines < MaxLines
    /\ n_lines' = n_lines + 1
    /\ \E line \in RhbLines :
        LET bal_m == RhbBalMatch(line.toks)
            balance == money_to_float(bal_m[1])
        IN  /\ doc' = Append(doc, line)
            /\ IF bal_m = None \/ line.date = BadDate
               THEN UNCHANGED <<text_pc, rows, prev_balance>>
               ELSE RhbTextRow(line, balance)
    /\ UNCHANGED <<parser, current_tx, desc_buffer, pbbVars, ocbcVars, notText>>

\* after the pages: return transactions
RhbTextEnd ==
    /\ parser \in {"rhb_islamic", "rhb_conventional"}
    /\ text_pc = "scan"
    /\ text_pc' = "done"
    /\ UNCHANGED <<parser, n_lines, doc, rows, prev_balance, current_tx, desc_buffer,
                   pbbVars, ocbcVars, notText>>

\* -------------------------------------------------------------- agro_bank.py
\* A line here is the words that share the top of a date anchor, as in
\* bank_muamalat.py; DATE_RE is the same pattern.
AgroToks ==
    {<<Word("TRF"), Num(30, ""), Num(b, "")>> : b \in {70, 130}}
    \cup {<<Word("BEGINNING BALANCE"), Num(100, "")>>,
          <<Word("CLOSING BALANCE"), Num(100, "")>>, <<Word("TRF")>>}

AgroLines == {Line(dt, toks) : dt \in MuamalatDates, toks \in AgroToks}

\* the words of the line that AMOUNT_RE matches: digits with an optional
\* trailing minus
AgroAmounts(toks) ==
    SelectSeq(toks, LAMBDA t : t.kind = "num" /\ t.val >= 0 /\ t.mark \in {"", "-"})

\* debit and credit of a row, with `debit or 0.0` and `credit or 0.0` applied
AgroMovement(balance, prev) ==
    IF prev = None THEN <<0, 0>>
    ELSE LET delta == balance - prev[1]
         IN  IF delta > 0 THEN <<0, delta>>
             ELSE IF delta < 0 THEN <<Abs(delta), 0>>
             ELSE <<0, 0>>

\* one date anchor, or one line without any, of the while loop
AgroLine ==
    /\ parser = "agro_bank"
    /\ text_pc = "scan"
    /\ n_lines < MaxLines
    /\ n_lines' = n_lines + 1
    /\ \E line \in AgroLines :
        LET amounts == AgroAmounts(line.toks)
            description == SelectSeq(line.toks, LAMBDA t : t.kind = "word")
            balance == money_to_float(amounts[Len(amounts)])
            iso_date == Strptime(line.date)
            mv == AgroMovement(balance, prev_balance)
        IN  /\ doc' = Append(doc, line)
            /\ IF line.date = BadDate \/ amounts = <<>>
               THEN UNCHANGED <<text_pc, rows, prev_balance>>
               ELSE IF iso_date = None
               THEN /\ text_pc' = "raised"
                    /\ UNCHANGED <<rows, prev_balance>>
               ELSE IF HasAny(description, {"BEGINNING BALANCE"})
               THEN /\ prev_balance' = Some(balance)
                    /\ UNCHANGED <<text_pc, rows>>
               ELSE IF HasAny(description, {"CLOSING BALANCE"})
               THEN UNCHANGED <<text_pc, rows, prev_balance>>
               ELSE /\ rows' = Append(rows, Row(iso_date[1], description, mv[1], mv[2],
                                               balance))
                    /\ prev_balance' = Some(balance)
                    /\ UNCHANGED text_pc
    /\ UNCHANGED <<parser, current_tx, desc_buffer, pbbVars, ocbcVars, notText>>

\* after the pages: return transactions
AgroEnd ==
    /\ parser = "agro_bank"
    /\ text_pc = "scan"
    /\ text_pc' = "done"
    /\ UNCHANGED <<parser, n_lines, doc, rows, prev_balance, current_tx, desc_buffer,
                   pbbVars, ocbcVars, notText>>

\* the state each parser starts its loop in
InitText ==
    /\ n_calls = 0
    /\ AppOff
    /\ ChainOff
    /\ TableOff
    /\ parser \in {"ambank", "maybank_cws", "maybank_mytutor", "public_bank", "ocbc",
                   "bank_muamalat", "agro_bank", "rhb", "rhb_islamic", "rhb_conventional"}
    /\ text_pc = "scan"
    /\ n_lines = 0
    /\ doc = <<>>
    /\ balance_bf = None
    /\ rows = <<>>
    /\ prev_balance = None
    /\ current_tx = None
    /\ desc_buffer = <<>>
    /\ current_date = None
    /\ desc_accum = <<>>
    /\ waiting_for_amount = FALSE
    /\ statement_year \in
        (IF parser \in {"public_bank", "rhb", "rhb_islamic", "rhb_conventional"}
         THEN {None, Some(2023)} ELSE {None})
    /\ detected_year \in
        (IF parser \notin {"public_bank", "rhb", "rhb_islamic", "rhb_conventional"} THEN {0}
         ELSE IF statement_year = None THEN ClockYears
         ELSE {statement_year[1]})
    /\ words = <<>>
    /\ processed_y = {}
    /\ gathered = <<>>

NextText ==
    \/ AmbankLine
    \/ AmbankEnd
    \/ CwsLine
    \/ CwsEnd
    \/ PbbPage
    \/ PbbLine
    \/ PbbEnd
    \/ OcbcPage
    \/ OcbcLine
    \/ OcbcEnd
    \/ MuamalatLine
    \/ MuamalatEnd
    \/ RhbLine
    \/ RhbEnd
    \/ RhbIslamicLine
    \/ RhbConventionalLine
    \/ RhbTextEnd
    \/ MytutorLine
    \/ MytutorEnd
    \/ AgroLine
    \/ AgroEnd

SpecText == InitText /\ [][NextText]_vars

\* --------------------------------------- coordinate parsers: one page of words
\* maybank.py _parse_mytutor_strategy, app.py _parse_maybank_mytutor, rhb.py
\* _parse_rhb_reflex_layout, agro_bank.py and bank_muamalat.py read a page as
\* positioned words and rebuild a line around each date token.  Positions are
\* in hundredths of a coordinate unit.
MaxWords == 4

Xs == {100, 200}
Ys == {0, 152, 304}

Y_TOL == 200
ReflexTol == 150
TopTol == 200
ProcessedTol == 50

LayoutParsers == {"mytutor_words", "app_mytutor", "rhb_reflex", "agro_words", "muamalat_words"}

\* the date token each parser's DATE_RE matches
LayoutDate(p) ==
    IF p \in {"agro_words", "muamalat_words"} THEN DateText(5, 1, 24)
    ELSE DateText(5, 1, 2024)

LayoutToks(p) ==
    {DateWord(LayoutDate(p)), Word("TRF"), Word("FEE"), Num(10, ""), Num(30, "")}

PlacedWord(x, y, tok) == [x |-> x, y |-> y, tok |-> tok]

\* round(y, 1)
Round1(y) == ((y + 5) \div 10) * 10

\* the vertical key each parser sorts and buckets by
SortKey(p, w) == IF p \in {"agro_words", "muamalat_words"} THEN w.y ELSE Round1(w.y)

RECURSIVE SortWords(_, _)
\* rows.sort(key=lambda r: (y, x))
SortWords(p, S) ==
    IF S = {} THEN <<>>
    ELSE LET first == CHOOSE w \in S : \A v \in S :
                          \/ SortKey(p, w) < SortKey(p, v)
                          \/ SortKey(p, w) = SortKey(p, v) /\ w.x <= v.x
         IN  <<first>> \o SortWords(p, S \ {first})

\* the condition of the list comprehension that gathers the words of a line
Near(p, anchor, w) ==
    CASE p = "mytutor_words" -> Abs(w.y - anchor.y) <= Y_TOL
      [] p = "app_mytutor" -> Abs(Round1(w.y) - Round1(anchor.y)) < TopTol
      [] p = "rhb_reflex" -> Abs(Round1(w.y) - Round1(anchor.y)) <= ReflexTol
      [] OTHER -> Abs(w.y - anchor.y) <= TopTol

RECURSIVE StableByX(_, _, _)
\* line.sort(key=lambda w: w["x"]): a stable sort of positions of `ws`
StableByX(ws, idx, xs) ==
    IF xs = {} THEN <<>>
    ELSE LET m == CHOOSE a \in xs : \A b \in xs : a <= b
         IN  SelectSeq(idx, LAMBDA j : ws[j].x = m) \o StableByX(ws, idx, xs \ {m})

\* the positions of `ws` gathered around the anchor at position i, in the
\* order the parser holds them: agro_bank.py and bank_muamalat.py do not sort
\* the line
LineOf(p, ws, i) ==
    LET same_line == SelectSeq([j \in 1..Len(ws) |-> j], LAMBDA j : Near(p, ws[i], ws[j]))
    IN  IF p \in {"agro_words", "muamalat_words"} THEN same_line
        ELSE StableByX(ws, same_line, {ws[j].x : j \in 1..Len(ws)})

\* the tokens at the positions idx
ToksAt(ws, idx) == [k \in 1..Len(idx) |-> ws[idx[k]].tok]

\* `if any(abs(y - y_bucket) < 0.5 for y in processed_y): continue`,
\* `if y in used_y: continue`; agro_bank.py and bank_muamalat.py have no guard
Processed(p, done, w) ==
    CASE p = "mytutor_words" -> \E y \in done : Abs(y - Round1(w.y)) < ProcessedTol
      [] p \in {"app_mytutor", "rhb_reflex"} -> Round1(w.y) \in done
      [] OTHER -> FALSE

\* app.py _parse_maybank_mytutor: the sign of the amount, else the previous
\* balance
AppMytutorMovement(amounts, bal, prev) ==
    IF Len(amounts) > 1
    THEN LET txn == amounts[Len(amounts) - 1]
         IN  IF txn.mark = "-" THEN <<txn.val, 0>>
             ELSE IF txn.mark = "+" THEN <<0, txn.val>>
             ELSE IF prev # None /\ prev[1] # 0 /\ prev[1] - txn.val = bal THEN <<txn.val, 0>>
             ELSE <<0, txn.val>>
    ELSE IF prev # None
    THEN LET diff == bal - prev[1]
         IN  IF diff < 0 THEN <<Abs(diff), 0>> ELSE <<0, diff>>
    ELSE <<0, 0>>

\* the loop's step over a word that is no anchor, or whose line is processed
LayoutSkip ==
    /\ n_lines' = n_lines + 1
    /\ UNCHANGED <<text_pc, rows, prev_balance, processed_y, gathered>>

\* the loop's step over an anchor that emits `row`
LayoutEmit(line, row, bal) ==
    /\ n_lines' = n_lines + 1
    /\ rows' = Append(rows, row)
    /\ prev_balance' = Some(bal)
    /\ gathered' = Append(gathered, [anchor |-> n_lines + 1, line |-> line])
    /\ UNCHANGED text_pc

\* maybank.py: one word of `for r in rows`
MytutorWord ==
    /\ parser = "mytutor_words"
    /\ text_pc = "scan"
    /\ n_lines < Len(words)
    /\ LET r == words[n_lines + 1]
           line == LineOf(parser, words, n_lines + 1)
           others == SelectSeq(ToksAt(words, line), LAMBDA t : t # r.tok)
           amounts == MytutorAmounts(others)
           desc_parts == SelectSeq(others, LAMBDA t : t.kind # "num")
           balance_val == parse_amt(amounts[Len(amounts)]).v
           txn == IF Len(amounts) > 1 THEN parse_amt(amounts[Len(amounts) - 1])
                  ELSE [v |-> 0, sign |-> None]
           mv == MytutorMovement(txn, balance_val, prev_balance, desc_parts)
           date_display == Strftime(ToDatetime(LayoutDate(parser)))
       IN  IF \/ r.tok.kind # "date"
              \/ Processed(parser, processed_y, r)
              \/ ToDatetime(LayoutDate(parser)) = NaT
              \/ amounts = <<>>
           THEN LayoutSkip
           ELSE /\ LayoutEmit(line, Row(date_display, desc_parts, mv[1], mv[2], balance_val),
                              balance_val)
                /\ processed_y' = processed_y \cup {Round1(r.y)}
    /\ UNCHANGED <<parser, doc, words, current_tx, desc_buffer, pbbVars, ocbcVars, notLayout>>

\* app.py: one word of `for r in rows`
AppMytutorWord ==
    /\ parser = "app_mytutor"
    /\ text_pc = "scan"
    /\ n_lines < Len(words)
    /\ LET r == words[n_lines + 1]
           line_items == LineOf(parser, words, n_lines + 1)
           others == SelectSeq(ToksAt(words, line_items), LAMBDA t : t # r.tok)
           amounts == SelectSeq(others, LAMBDA t : t.kind = "num")
           desc_parts == SelectSeq(others, LAMBDA t : t.kind # "num")
           bal == amounts[Len(amounts)].val
           mv == AppMytutorMovement(amounts, bal, prev_balance)
       IN  IF \/ Processed(parser, processed_y, r)
              \/ r.tok.kind # "date"
              \/ amounts = <<>>
           THEN LayoutSkip
           ELSE /\ LayoutEmit(line_items, Row(LayoutDate(parser), desc_parts, mv[1], mv[2], bal),
                              bal)
                /\ processed_y' = processed_y \cup {Round1(r.y)}
    /\ UNCHANGED <<parser, doc, words, current_tx, desc_buffer, pbbVars, ocbcVars, notLayout>>

\* rhb.py: one word of `for r in rows`
ReflexWord ==
    /\ parser = "rhb_reflex"
    /\ text_pc = "scan"
    /\ n_lines < Len(words)
    /\ LET r == words[n_lines + 1]
           line == LineOf(parser, words, n_lines + 1)
           money == SelectSeq(ToksAt(words, line), LAMBDA t : t.kind = "num")
           bal_val == money_to_float(money[Len(money)])
           description_parts == SelectSeq(ToksAt(words, line), LAMBDA t : t.kind = "word")
           mv == AgroMovement(bal_val, prev_balance)
       IN  IF \/ r.tok.kind # "date"
              \/ Processed(parser, processed_y, r)
              \/ Len(money) < 2
           THEN LayoutSkip
           ELSE /\ LayoutEmit(line, Row(LayoutDate(parser), description_parts, mv[1], mv[2],
                                        bal_val), bal_val)
                /\ processed_y' = processed_y \cup {Round1(r.y)}
    /\ UNCHANGED <<parser, doc, words, current_tx, desc_buffer, pbbVars, ocbcVars, notLayout>>

\* agro_bank.py: one word of `while i < len(words)`
AgroWord ==
    /\ parser = "agro_words"
    /\ text_pc = "scan"
    /\ n_lines < Len(words)
    /\ LET same_line == LineOf(parser, words, n_lines + 1)
           toks == ToksAt(words, same_line)
           description == SelectSeq(toks, LAMBDA t : t.kind = "word")
           by_x == StableByX(words, same_line, {words[j].x : j \in 1..Len(words)})
           amounts == AgroAmounts(ToksAt(words, by_x))
           balance == money_to_float(amounts[Len(amounts)])
           iso_date == Strptime(LayoutDate(parser))
           mv == AgroMovement(balance, prev_balance)
       IN  IF words[n_lines + 1].tok.kind # "date" \/ amounts = <<>>
           THEN LayoutSkip
           ELSE IF iso_date = None
           THEN /\ text_pc' = "raised"
                /\ UNCHANGED <<n_lines, rows, prev_balance, processed_y, gathered>>
           ELSE IF HasAny(description, {"BEGINNING BALANCE"})
           THEN /\ n_lines' = n_lines + 1
                /\ prev_balance' = Some(balance)
                /\ UNCHANGED <<text_pc, rows, processed_y, gathered>>
           ELSE IF HasAny(description, {"CLOSING BALANCE"})
           THEN LayoutSkip
           ELSE /\ LayoutEmit(same_line, Row(iso_date[1], description, mv[1], mv[2], balance),
                              balance)
                /\ UNCHANGED processed_y
    /\ UNCHANGED <<parser, doc, words, current_tx, desc_buffer, pbbVars, ocbcVars, notLayout>>

\* bank_muamalat.py: one word of `while i < len(words)`
MuamalatWord ==
    /\ parser = "muamalat_words"
    /\ text_pc = "scan"
    /\ n_lines < Len(words)
    /\ LET same_line == LineOf(parser, words, n_lines + 1)
           toks == ToksAt(words, same_line)
           description == MuamalatDescription(toks)
           by_x == StableByX(words, same_line, {words[j].x : j \in 1..Len(words)})
           amounts == MuamalatAmounts(ToksAt(words, by_x))
           current_balance == amounts[Len(amounts)].val
           txn_amount == IF Len(amounts) > 1 THEN Some(amounts[Len(amounts) - 1].val)
                         ELSE None
           mv == MuamalatMovement(txn_amount, prev_balance, current_balance, description)
           iso_date == Strptime(LayoutDate(parser))
       IN  IF words[n_lines + 1].tok.kind # "date" \/ amounts = <<>>
           THEN LayoutSkip
           ELSE IF iso_date = None
           THEN /\ text_pc' = "raised"
                /\ UNCHANGED <<n_lines, rows, prev_balance, processed_y, gathered>>
           ELSE /\ LayoutEmit(same_line, Row(iso_date[1], description, mv[1], mv[2],
                                             current_balance), current_balance)
                /\ UNCHANGED processed_y
    /\ UNCHANGED <<parser, doc, words, current_tx, desc_buffer, pbbVars, ocbcVars, notLayout>>

\* after the words of the page: the parser returns its rows
LayoutEnd ==
    /\ parser \in LayoutParsers
    /\ text_pc = "scan"
    /\ n_lines = Len(words)
    /\ text_pc' = "done"
    /\ UNCHANGED <<parser, n_lines, doc, words, rows, prev_balance, current_tx, desc_buffer,
                   processed_y, gathered, pbbVars, ocbcVars, notLayout>>

\* the cells of a page that hold a word
Cells == Ys \X Xs

\* a page of at most MaxWords words, sorted as the parser sorts it, and the
\* opening balance rhb.py reads before its loop
InitLayout ==
    /\ n_calls = 0
    /\ AppOff
    /\ ChainOff
    /\ TableOff
    /\ parser \in LayoutParsers
    /\ text_pc = "scan"
    /\ n_lines = 0
    /\ doc = <<>>
    /\ balance_bf = None
    /\ rows = <<>>
    /\ prev_balance \in (IF parser = "rhb_reflex" THEN {None, Some(100)} ELSE {None})
    /\ current_tx = None
    /\ desc_buffer = <<>>
    /\ current_date = None
    /\ desc_accum = <<>>
    /\ waiting_for_amount = FALSE
    /\ statement_year = None
    /\ detected_year = 0
    /\ \E S \in SUBSET Cells :
        /\ Cardinality(S) <= MaxWords
        /\ \E f \in [S -> LayoutToks(parser)] :
            words = SortWords(parser, {PlacedWord(c[2], c[1], f[c]) : c \in S})
    /\ processed_y = {}
    /\ gathered = <<>>

NextLayout ==
    \/ MytutorWord
    \/ AppMytutorWord
    \/ ReflexWord
    \/ AgroWord
    \/ MuamalatWord
    \/ LayoutEnd

SpecLayout == InitLayout /\ [][NextLayout]_vars

\* ------------------------------------------------- one extractor, many files
\* app.py's loop calls the extractor once per uploaded file; a call creates
\* its lists, sets and carry anew.

\* extract_cimb with `seen` kept at module level, outside the call
CimbCallShared ==
    /\ bank = "cimb"
    /\ cimb_summary = None
    /\ n_calls < MaxDocs - 1
    /\ n_calls' = n_calls + 1
    /\ txns' = <<>>
    /\ UNCHANGED <<bank, is_casa, seen, cimb_summary, appVars, chainVars, textVars, layoutVars,
                   txns_000>>

\* extract_cimb is called for the next file
CimbCall ==
    /\ bank = "cimb"
    /\ cimb_summary = None
    /\ n_calls < MaxDocs - 1
    /\ n_calls' = n_calls + 1
    /\ txns' = <<>>
    /\ seen' = {}
    /\ UNCHANGED <<bank, is_casa, cimb_summary, appVars, chainVars, textVars, layoutVars,
                   txns_000>>

\* _parse_rhb_account_statement_text is called for the next file
RhbCall ==
    /\ parser = "rhb"
    /\ text_pc = "done"
    /\ n_calls < MaxDocs - 1
    /\ n_calls' = n_calls + 1
    /\ text_pc' = "scan"
    /\ n_lines' = 0
    /\ doc' = <<>>
    /\ rows' = <<>>
    /\ prev_balance' = None
    /\ current_tx' = None
    /\ statement_year' \in {None, Some(2023)}
    /\ detected_year' \in
         (IF statement_year' = None THEN ClockYears ELSE {statement_year'[1]})
    /\ UNCHANGED <<parser, desc_buffer, current_date, desc_accum, waiting_for_amount,
                   ocbcVars, appVars, chainVars, tableVars, layoutVars, txns_000>>

InitBatch ==
    \/ InitTable /\ bank = "cimb"
    \/ InitText /\ parser = "rhb"

NextBatch ==
    \/ CimbRow
    \/ CimbCall
    \/ RhbLine
    \/ RhbEnd
    \/ RhbCall

SpecBatch == InitBatch /\ [][NextBatch]_vars

\* ------------------------------------------------------------ specification
Init ==
    /\ n_calls = 0
    /\ ChainOff
    /\ TableOff
    /\ TextOff
    /\ pc = "idle"
    /\ od_limit \in {0, 50}
    /\ n_done = 0
    /\ all_tx = <<>>
    /\ n_errors = 0
    /\ data_extracted = None
    /\ summary_df = <<>>

Next ==
    \/ StartRun
    \/ RunNoFiles
    \/ ProcessFile
    \/ ProcessEmpty
    \/ ProcessError
    \/ FinishRun
    \/ Display

Spec == Init /\ [][Next]_vars

\* =================================================================== claims
Ledger == data_extracted[1]

Shown == pc = "shown"

Inversion(r) == r.balance - r.credit + r.debit

Ts(r) == ToDatetime(r.date)

\* the dated rows of the ledger that fall in the month of summary row k
RowsOfMonth(k) ==
    SelectSeq(Dated(Ledger), LAMBDA r : MonthLabel(PeriodOf(r)) = summary_df[k].Month)

LabelBefore(a, b) == a.y < b.y \/ (a.y = b.y /\ a.m < b.m)

\* C5: in the monthly summary every month after the first opens with the
\* ending of the month before it, exactly.
C5_MonthlyContinuity ==
    Shown => \A k \in 2..Len(summary_df) :
                summary_df[k].Opening = summary_df[k - 1].Ending

\* a later month whose own first row would give another opening
C5_Witness ==
    /\ Shown
    /\ Len(summary_df) >= 2
    /\ Inversion(RowsOfMonth(2)[1]) # summary_df[1].Ending

\* C6: the first month's opening is balance - credit + debit of the
\* chronologically earliest row of that month.
C6_FirstOpeningFromEarliestRow ==
    (Shown /\ summary_df # <<>>) =>
        \E i \in DOMAIN RowsOfMonth(1) :
            /\ \A j \in DOMAIN RowsOfMonth(1) : Ts(RowsOfMonth(1)[i]) <= Ts(RowsOfMonth(1)[j])
            /\ summary_df[1].Opening = Inversion(RowsOfMonth(1)[i])

\* C7: every month's ending is the balance of a row with the latest date of
\* that month.
C7_EndingFromLatestRow ==
    Shown => \A k \in DOMAIN summary_df :
        \E i \in DOMAIN RowsOfMonth(k) :
            /\ \A j \in DOMAIN RowsOfMonth(k) : Ts(RowsOfMonth(k)[j]) <= Ts(RowsOfMonth(k)[i])
            /\ summary_df[k].Ending = RowsOfMonth(k)[i].balance

\* C8: the summary has one row per calendar month that holds a dated row,
\* and the rows come in strictly ascending calendar order.
C8_MonthsAscending ==
    Shown =>
        /\ {summary_df[k].Month : k \in DOMAIN summary_df}
             = {MonthLabel(PeriodOf(Ledger[i])) : i \in {j \in DOMAIN Ledger : Ts(Ledger[j]) # NaT}}
        /\ \A k \in 2..Len(summary_df) :
             LabelBefore(summary_df[k - 1].Month, summary_df[k].Month)

\* two months shown although the ledger holds the later month first
C8_Witness ==
    /\ Shown
    /\ Len(summary_df) = 2
    /\ Ts(Ledger[1]) # NaT
    /\ MonthLabel(PeriodOf(Ledger[1])) = summary_df[2].Month

\* C9: the final ledger holds no two rows with the same
\* (date, description, debit, credit, balance) signature.
C9_NoDuplicateSignature ==
    data_extracted # None =>
        \A i, j \in DOMAIN Ledger : i # j => Ledger[i] # Ledger[j]

\* C10: the final ledger is chronologically non-decreasing by parsed date.
C10_LedgerChronological ==
    data_extracted # None =>
        \A i, j \in DOMAIN Ledger :
            (i < j /\ Ts(Ledger[i]) # NaT /\ Ts(Ledger[j]) # NaT) => Ts(Ledger[i]) <= Ts(Ledger[j])

\* the first strategy of the registry whose result is non-empty, if any
NonEmptyAt ==
    {i \in DOMAIN Registry(chain) :
        /\ outcome[Registry(chain)[i]].kind = "rows"
        /\ outcome[Registry(chain)[i]].rows # <<>>}
FirstNonEmpty == CHOOSE i \in NonEmptyAt : \A j \in NonEmptyAt : i <= j

\* C4: a chain calls its strategies in registry order, never calls one after
\* the first strategy with a non-empty result, and returns exactly that
\* strategy's ledger.
C4_FirstNonEmptyWins ==
    (chain # "off" /\ NonEmptyAt # {}) =>
        /\ Len(consulted) <= FirstNonEmpty
        /\ \A i \in DOMAIN consulted : consulted[i] = Registry(chain)[i]
        /\ chain_pc = "returned" =>
             /\ Len(consulted) = FirstNonEmpty
             /\ result = Some(outcome[Registry(chain)[FirstNonEmpty]].rows)

\* a chain returned after falling back, with a later strategy that would
\* have given other rows
C4_Witness ==
    /\ chain_pc = "returned"
    /\ NonEmptyAt # {}
    /\ FirstNonEmpty >= 2
    /\ \E j \in NonEmptyAt :
         /\ j > FirstNonEmpty
         /\ outcome[Registry(chain)[j]] # outcome[Registry(chain)[FirstNonEmpty]]

\* C1: no row a table extractor emits has both a debit and a credit.
C1_NeverBothNonZero ==
    \A i \in DOMAIN txns : ~(txns[i].debit # 0 /\ txns[i].credit # 0)

\* C2: every row a parser emits has exactly one of debit > 0 and
\* credit > 0; no emitted row has debit = credit = 0.
C2_ExactlyOneSide ==
    \A i \in DOMAIN rows : (rows[i].debit > 0) # (rows[i].credit > 0)

\* C3: in the rows emitted for one document, each row's balance is the
\* balance of the row before it, less its debit, plus its credit, within
\* the tolerance.
C3_AdjacentRowsReconcile ==
    \A i \in DOMAIN rows :
        i > 1 =>
            Abs(rows[i].balance
                - (rows[i - 1].balance - rows[i].debit + rows[i].credit)) < Eps

\* C11: sorting a frame that the run has already sorted gives the same rows
\* in the same order, rows that share a date included.
C11_NormalizeIdempotent ==
    (pc = "loop" /\ n_done = 1 /\ all_tx # <<>>) => SortValues(all_tx) = {all_tx}

\* a line whose only money token is a balance that ends it
SeedRow(line) ==
    LET n == Len(line.toks)
    IN  /\ n >= 1
        /\ OcbcNum(line.toks[n])
        /\ \A i \in 1..(n - 1) : line.toks[i].kind = "word"

\* a dated line that ends with an unsigned amount and a balance and holds
\* no direction keyword
MovementRow(line) ==
    LET n == Len(line.toks)
    IN  /\ line.date # BadDate
        /\ n >= 2
        /\ OcbcNum(line.toks[n - 1])
        /\ OcbcNum(line.toks[n])
        /\ \A i \in 1..(n - 2) : line.toks[i].kind = "word"
        /\ ~HasAny(line.toks, OcbcCreditWords \cup OcbcDebitWords)

LineBalance(line) == line.toks[Len(line.toks)].val
LineAmount(line) == line.toks[Len(line.toks) - 1].val

\* the statement read is a seed row followed by rows whose balance moved by
\* their amount
SeededStatement ==
    /\ text_pc = "done"
    /\ Len(doc) >= 2
    /\ SeedRow(doc[1])
    /\ \A i \in 2..Len(doc) :
          /\ MovementRow(doc[i])
          /\ Abs(LineBalance(doc[i]) - LineBalance(doc[i - 1])) = LineAmount(doc[i])

\* C12: after a balance-only seed row with balance S, a row whose balance
\* rose by its amount is emitted as a credit of that amount, a row whose
\* balance fell by it as a debit, the seed row is not emitted, and the opening
\* computed from the first emitted row is S.
C12_SeededClassification ==
    (parser \in {"ambank", "ocbc"} /\ SeededStatement) =>
        /\ Len(rows) = Len(doc) - 1
        /\ \A i \in 2..Len(doc) :
              LET r == rows[i - 1]
                  a == LineAmount(doc[i])
              IN  /\ r.balance = LineBalance(doc[i])
                  /\ IF LineBalance(doc[i]) > LineBalance(doc[i - 1])
                     THEN r.credit = a /\ r.debit = 0
                     ELSE r.debit = a /\ r.credit = 0
        /\ Inversion(rows[1]) = LineBalance(doc[1])

\* C13: overdraft utilisation is |ending| when ending < 0 and the limit is
\* > 0, else 0; overdraft percent is utilisation / limit x 100 when the limit
\* is > 0, and both are 0 under a limit of 0.
C13_OverdraftUtilisation ==
    cimb_summary # None =>
        LET limit == cimb_summary[1].od_limit
            sm == cimb_summary[1].summary
        IN  /\ sm.OdUtil = (IF sm.EndingBalance < 0 /\ limit > 0
                            THEN Abs(sm.EndingBalance) ELSE 0)
            /\ limit > 0 => sm.OdPct * limit = sm.OdUtil * 100
            /\ limit = 0 => sm.OdPct = 0 /\ sm.OdUtil = 0

\* a summary under a limit with a negative ending, and one with a
\* non-negative ending
C13_Witness ==
    /\ cimb_summary # None
    /\ cimb_summary[1].od_limit > 0
    /\ cimb_summary[1].summary.EndingBalance < 0
    /\ cimb_summary[1].summary.OdPct > 0

\* C14: in every month of the summary Highest and Lowest are the largest and
\* the smallest balance of the month's rows, Swing is Highest - Lowest and is
\* not negative, and Ending lies between Lowest and Highest.
C14_HighLowSwing ==
    Shown => \A k \in DOMAIN summary_df :
        LET sm == summary_df[k]
            month == RowsOfMonth(k)
        IN  /\ \E i \in DOMAIN month : month[i].balance = sm.Highest
            /\ \E i \in DOMAIN month : month[i].balance = sm.Lowest
            /\ \A i \in DOMAIN month :
                  sm.Lowest <= month[i].balance /\ month[i].balance <= sm.Highest
            /\ sm.Swing = sm.Highest - sm.Lowest
            /\ sm.Swing >= 0
            /\ sm.Lowest <= sm.Ending /\ sm.Ending <= sm.Highest

\* a month whose first row holds neither the highest balance alone nor the
\* ending
C14_Witness ==
    /\ Shown
    /\ \E k \in DOMAIN summary_df :
          /\ Len(RowsOfMonth(k)) >= 2
          /\ RowsOfMonth(k)[1].balance < summary_df[k].Highest
          /\ summary_df[k].Swing > 0

\* C15: every record an extractor emits has debit >= 0 and credit >= 0,
\* also when a table cell carries a signed number.
C15_NonNegativeMovements ==
    \A i \in DOMAIN txns : txns[i].debit >= 0 /\ txns[i].credit >= 0

\* C16: the value a chain returns when every strategy came back empty is a
\* sentinel that it does not return for a statement that holds only a
\* balance-only marker, so a caller can tell the two apart.
C16_EmptySentinelDistinct ==
    (chain_pc = "returned" /\ marker_only) => result # ExhaustedResult(chain)

\* C17: an exception raised inside a strategy never leaves the chain.
C17_ExceptionNeverEscapes ==
    chain_pc # "raised"

\* C18: a document whose extraction fails does not end the batch: the run
\* goes on to the other documents and to the combined ledger.
C18_BatchSurvivesFailure ==
    pc # "aborted"

\* C19: a line whose date-like word is no calendar date does not abort the
\* parse of its document: the parser never ends in an error.
C19_MalformedLineDoesNotAbort ==
    text_pc # "raised"

\* C20: a row whose date is printed without a year is emitted only when the
\* year was found in the document: without one, no row is emitted.
C20_NoGuessedYear ==
    (parser = "public_bank" /\ statement_year = None) => rows = <<>>

\* the rows of the ledger that have a timestamp and fall in the month of
\* summary row k
TimedRowsOfMonth(k) ==
    SelectSeq(Ledger, LAMBDA r : Ts(r) # NaT
                                 /\ MonthLabel(ToPeriod(Ts(r))) = summary_df[k].Month)

\* every row of the frame kept, as often as it was there
SameRows(a, b) ==
    /\ Len(a) = Len(b)
    /\ \A r \in {a[i] : i \in DOMAIN a} :
          Cardinality({i \in DOMAIN a : a[i] = r}) = Cardinality({i \in DOMAIN b : b[i] = r})

\* C21: a row whose date does not parse stays in the ledger (sorting a frame
\* keeps every row) and counts in no month: every month's Debit, Credit,
\* Ending, Highest and Lowest come from the rows with a date of that month.
C21_UndatedKeptAndExcluded ==
    /\ pc = "loop" => \A sorted \in SortValues(all_tx) : SameRows(sorted, all_tx)
    /\ Shown =>
        /\ Ledger = all_tx
        /\ \A k \in DOMAIN summary_df :
            LET group == TimedRowsOfMonth(k)
                balances == {group[i].balance : i \in DOMAIN group}
            IN  /\ group # <<>>
                /\ summary_df[k].Debit = SumOf(group, "debit")
                /\ summary_df[k].Credit = SumOf(group, "credit")
                /\ summary_df[k].Ending \in balances
                /\ summary_df[k].Highest \in balances
                /\ summary_df[k].Lowest \in balances

\* a summary shown for a ledger that holds a row without a date
C21_Witness ==
    /\ Shown
    /\ summary_df # <<>>
    /\ \E i \in DOMAIN Ledger : Ts(Ledger[i]) = NaT

\* C22: the balance carry spans the pages of a document: once a row has been
\* emitted the parser knows a previous balance at every later point of the
\* document, the start of a page included.
C22_CarrySpansPages ==
    (parser \in {"ambank", "public_bank", "ocbc", "bank_muamalat"} /\ rows # <<>>) =>
        prev_balance # None

RECURSIVE RhbCarry(_)
\* the balance of the last line of the text that gives one: a dated line
\* that holds a money token
RhbCarry(text) ==
    IF text = <<>> THEN None
    ELSE LET line == text[Len(text)]
             money_idx == RhbMoneyIdx(line.toks)
         IN  IF line.date # BadDate /\ ~RhbNoise(line) /\ money_idx # {}
             THEN Some(money_to_float(
                      line.toks[CHOOSE i \in money_idx : \A j \in money_idx : j <= i]))
             ELSE RhbCarry(SubSeq(text, 1, Len(text) - 1))

C24_MonthsPartitionLedger ==
    (Shown /\ summary_df # <<>>) =>
        LET timed == SelectSeq(Ledger, LAMBDA r : Ts(r) # NaT)
        IN  /\ \A i \in DOMAIN timed :
                 Cardinality({k \in DOMAIN summary_df :
                     summary_df[k].Month = MonthLabel(ToPeriod(Ts(timed[i])))}) = 1
            /\ TotalCredits(summary_df) = SumOf(timed, "credit")
            /\ TotalDebits(summary_df) = SumOf(timed, "debit")

\* two months shown, with a credit and a debit among the dated rows
C24_Witness ==
    /\ Shown
    /\ Len(summary_df) >= 2
    /\ TotalCredits(summary_df) > 0
    /\ TotalDebits(summary_df) > 0

\* C25: the CWS parser emits each transaction once: when it returns, it has
\* as many rows as the text has dated lines with an amount pattern.
C25_EmittedExactlyOnce ==
    (parser = "maybank_cws" /\ text_pc = "done") =>
        Len(rows) = Cardinality({i \in DOMAIN doc :
                        doc[i].date # BadDate /\ AmountSearch(doc[i].toks) # None})

\* the lines of the text the Mytutor strategy emits a row for, in order
MytutorEmitting(text) ==
    SelectSeq(text, LAMBDA l : ToDatetime(l.date) # NaT /\ MytutorAmounts(l.toks) # <<>>)

\* C26: a sign on the movement token decides the direction alone: "-" gives
\* debit = amount and credit = 0, "+" gives credit = amount and debit = 0,
\* whatever the previous balance is.
C26_SignDecides ==
    parser = "maybank_mytutor" =>
        /\ Len(rows) = Len(MytutorEmitting(doc))
        /\ \A i \in DOMAIN rows :
            LET amounts == MytutorAmounts(MytutorEmitting(doc)[i].toks)
                movement == amounts[Len(amounts) - 1]
            IN  Len(amounts) > 1 =>
                  /\ movement.mark = "-" => rows[i].debit = movement.val /\ rows[i].credit = 0
                  /\ movement.mark = "+" => rows[i].credit = movement.val /\ rows[i].debit = 0

\* C27: a row emitted for an unsigned amount a with a previous balance known
\* is a credit of a exactly when |delta - a| is within the tolerance and a
\* debit of a exactly when |delta + a| is, delta being the change of balance.
C27_DeltaReconciliation ==
    [][(/\ parser \in {"ambank", "ocbc", "public_bank"}
        /\ prev_balance # None
        /\ Len(doc') = Len(doc) + 1
        /\ Len(rows') = Len(rows) + 1
        /\ Len(doc'[Len(doc')].toks) >= 2
        /\ doc'[Len(doc')].toks[Len(doc'[Len(doc')].toks) - 1].mark = "")
       => LET r == rows'[Len(rows')]
              toks == doc'[Len(doc')].toks
              a == toks[Len(toks) - 1].val
              delta == r.balance - prev_balance[1]
          IN  /\ (r.credit = a /\ r.debit = 0) <=> Abs(delta - a) < Eps
              /\ (r.debit = a /\ r.credit = 0) <=> Abs(delta + a) < Eps]_vars

\* the words a parser reads a direction from
DirectionKeywords ==
    OcbcCreditWords \cup OcbcDebitWords \cup {"DEPOSIT", "TRANSFER FROM", "CREDIT", "PROFIT PAID"}

\* C28: on a row without a sign whose description holds a direction keyword
\* and whose amount reconciles with the change of balance, the direction
\* emitted is the one the change of balance gives.
C28_DeltaBeforeKeyword ==
    [][(/\ parser \in {"ocbc", "bank_muamalat", "maybank_mytutor"}
        /\ prev_balance # None
        /\ Len(doc') = Len(doc) + 1
        /\ Len(rows') = Len(rows) + 1
        /\ Len(doc'[Len(doc')].toks) >= 2
        /\ doc'[Len(doc')].toks[Len(doc'[Len(doc')].toks) - 1].kind = "num"
        /\ doc'[Len(doc')].toks[Len(doc'[Len(doc')].toks) - 1].mark = ""
        /\ HasAny(doc'[Len(doc')].toks, DirectionKeywords))
       => LET r == rows'[Len(rows')]
              toks == doc'[Len(doc')].toks
              a == toks[Len(toks) - 1].val
              delta == r.balance - prev_balance[1]
          IN  /\ Abs(delta - a) < Eps => (r.credit = a /\ r.debit = 0)
              /\ Abs(delta + a) < Eps => (r.debit = a /\ r.credit = 0)]_vars

\* the dated lines of the text that hold a money token besides the balance
MovementLines(text) ==
    {i \in DOMAIN text :
        /\ text[i].date # BadDate
        /\ Cardinality({j \in DOMAIN text[i].toks : text[i].toks[j].kind = "num"}) >= 2}

\* C29: a line whose only money token is a balance is never emitted: a
\* parser holds no more rows than the text has lines with a movement amount,
\* also when the text has no such line at all.
C29_BalanceOnlyNeverEmitted ==
    parser \in {"rhb", "maybank_mytutor", "ocbc"} =>
        Len(rows) <= Cardinality(MovementLines(doc))

RECURSIVE LastBalanceOf(_)
\* the balance of the last dated line of the text that ends with a money
\* token, None when the text has no such line
LastBalanceOf(text) ==
    IF text = <<>> THEN None
    ELSE LET line == text[Len(text)]
             n == Len(line.toks)
         IN  IF line.date # BadDate /\ n >= 1 /\ line.toks[n].kind = "num"
             THEN Some(money_to_float(line.toks[n]))
             ELSE LastBalanceOf(SubSeq(text, 1, Len(text) - 1))

\* C30: after any prefix of the lines the previous balance is the balance of
\* the last line that gave one, an opening or a closing marker included.
C30_CarryIsLastBalance ==
    (parser \in {"agro_bank", "rhb"} /\ text_pc # "raised") =>
        prev_balance = LastBalanceOf(doc)

\* a line without a date that a parser's noise patterns match
NoiseLine(line) ==
    /\ line.date = BadDate
    /\ HasAny(line.toks, OcbcStopWords \cup {"PAGE NO"})

\* C31: a noise line read while a transaction is open is discarded: the
\* open transaction stays as it is and stays open, so a continuation line
\* after it still reaches that transaction.
C31_NoiseKeepsTransactionOpen ==
    [][(/\ parser \in {"rhb", "ocbc"}
        /\ Len(doc') = Len(doc) + 1
        /\ NoiseLine(doc'[Len(doc')]))
       => (current_tx' = current_tx /\ rows' = rows)]_vars

\* C32: a continuation line goes to the transaction of the nearest dated
\* line before it: when a line without a date changes a description, the
\* last dated line read before it is one that opened a transaction.
C32_ContinuationToNearestAnchor ==
    [][(/\ parser \in {"ambank", "ocbc", "rhb"}
        /\ Len(doc') = Len(doc) + 1
        /\ doc'[Len(doc')].date = BadDate
        /\ Len(rows') = Len(rows)
        /\ rows' # rows)
       => LET dated == {i \in DOMAIN doc : doc[i].date # BadDate}
          IN  /\ dated # {}
              /\ (CHOOSE i \in dated : \A j \in dated : j <= i) \in MovementLines(doc)]_vars

\* C33: the balance of a row is its right-most money token and the movement
\* amount the token next to it on the left, however many money tokens the
\* row has: the row emitted carries that balance, and when that amount
\* reconciles with the change of balance the row is emitted with it.
C33_RightmostIsBalance ==
    [][(/\ parser \in {"ambank", "ocbc", "maybank_mytutor"}
        /\ prev_balance # None
        /\ Len(doc') = Len(doc) + 1
        /\ Len(rows') = Len(rows) + 1
        /\ Len(doc) + 1 \in MovementLines(doc')
        /\ doc'[Len(doc')].toks[Len(doc'[Len(doc')].toks) - 1].mark = ""
        /\ ~HasAny(doc'[Len(doc')].toks, DirectionKeywords))
       => LET r == rows'[Len(rows')]
              toks == doc'[Len(doc')].toks
              a == toks[Len(toks) - 1].val
              delta == toks[Len(toks)].val - prev_balance[1]
          IN  /\ r.balance = toks[Len(toks)].val
              /\ Abs(delta - a) < Eps => (r.credit = a /\ r.debit = 0)
              /\ Abs(delta + a) < Eps => (r.debit = a /\ r.credit = 0)]_vars

\* C34: the balance a row is emitted with is negative when its balance token
\* trails a "-" and not negative otherwise, whatever the movement token on
\* the same line carries.
C34_BalanceSignDecoded ==
    [][(/\ parser \in {"maybank_mytutor", "rhb"}
        /\ Len(doc') = Len(doc) + 1
        /\ Len(rows') = Len(rows) + 1)
       => LET toks == doc'[Len(doc')].toks
              bal == toks[Len(toks)]
          IN  rows'[Len(rows')].balance = (IF bal.mark = "-" THEN -bal.val ELSE bal.val)]_vars

\* the tolerance each coordinate parser gathers a line with
Tolerance(p) == IF p = "rhb_reflex" THEN ReflexTol ELSE TopTol

\* the positions a gathered line holds
LineSet(g) == {g.line[k] : k \in 1..Len(g.line)}

\* C35: the row built around an anchor holds exactly the words of the page
\* whose vertical distance to each word of the row is below the tolerance, its
\* words are in increasing horizontal order, and gathering around any other
\* word of the row gives the same row.
C35_RowsByTolerance ==
    parser \in LayoutParsers =>
        \A n \in 1..Len(gathered) :
            LET g == gathered[n]
            IN  /\ \A j \in LineSet(g) : \A k \in 1..Len(words) :
                       k \in LineSet(g) <=> Abs(words[j].y - words[k].y) < Tolerance(parser)
                /\ \A a, b \in 1..Len(g.line) :
                       a < b => words[g.line[a]].x <= words[g.line[b]].x
                /\ \A j \in LineSet(g) :
                       LineOf(parser, words, j) = LineOf(parser, words, g.anchor)

\* C36: the lines gathered around two anchors that both emitted a row share no
\* word, and two anchors at the same height never both emit a row.
C36_TokensInOneRow ==
    parser \in LayoutParsers =>
        \A m, n \in 1..Len(gathered) :
            m # n => /\ LineSet(gathered[m]) \cap LineSet(gathered[n]) = {}
                     /\ words[gathered[m].anchor].y # words[gathered[n].anchor].y

\* the positions of `text` that hold a dated line with a balance
DatedBalanceLines(text) ==
    {i \in DOMAIN text : text[i].date # BadDate /\ RhbMoneyIdx(text[i].toks) # {}}

\* the balance a dated balance line prints: its last money token, signed
PrintedBalance(line) ==
    LET money_idx == RhbMoneyIdx(line.toks)
        last == CHOOSE i \in money_idx : \A j \in money_idx : j <= i
    IN  IF line.toks[last].mark = "-" THEN -line.toks[last].val ELSE line.toks[last].val

CimbCandidate(row) ==
    /\ valid_date(row.date)
    /\ ~HasAny(row.desc, CimbSkipPhrases)
    /\ ~(to_float(row.wd) = 0 /\ to_float(row.dep) = 0)

\* C38: extract_cimb drops a candidate row exactly when a row with the same
\* emitted date, description, debit, credit and balance is already among the
\* emitted rows; so no two emitted rows are identical, and a row that differs
\* from every emitted row (be it only by its reference) is kept.
C38_DedupOnEmittedFields ==
    bank = "cimb" =>
        /\ \A row \in CimbTableRows :
               CimbCandidate(row) =>
                   (CimbKey(row) \in seen <=> \E i \in 1..Len(txns) : txns[i] = CimbRecord(row))
        /\ \A i, j \in 1..Len(txns) : i # j => txns[i] # txns[j]

\* C39: given the same table rows, extract_bank_rakyat of bank_rakyat.py and
\* its copy in unnamed/part_000 hold the same ledger.
C39_SameLedger == bank = "bank_rakyat_pair" => txns = txns_000

====
